---- MODULE Spec2Model ----
(***************************************************************************)
(* A model of the il-gaemi date library: the business-day and week         *)
(* calculator (src/src/date/index.ts) and the flexible date parser and     *)
(* formatter (src/src/format/index.ts).                                    *)
(*                                                                         *)
(* Strings are sequences of one-character strings.  The three Hangul       *)
(* syllables the Korean date form uses are written as the single sequence  *)
(* elements "nyeon" (year marker), "wol" (month marker) and "il" (day      *)
(* marker): each stands for one UTF-16 code unit of the source string.     *)
(* A calendar date (Temporal.PlainDate) is a record [year, month, day].    *)
(* The outcome of a call is a record: Ret(v) when it returns v, Throw(e)   *)
(* when it throws an error of class e.                                     *)
(***************************************************************************)
EXTENDS Integers, Sequences, FiniteSets, TLC

VARIABLES
  pc,              \* "idle", "loop" (inside a do-while loop) or "done"
  op,              \* the function that was called
  arg,             \* its date argument
  holidayList,     \* its holidayList argument
  dayOffWeekdays,  \* its dayOffWeekdays argument
  currentDate,     \* the loop variable of the workday searches
  result,          \* the outcome of the call
  formatType,      \* the type argument of format
  formatPattern,   \* the formatString argument of format
  clockYear,       \* the year the clock showed during the call
  baseDate,        \* the baseDate argument of formatRelative
  clockNow,        \* the time the clock showed when formatRelative read it
  callerNow,       \* the time the caller read from the clock before the call
  fromTimeZone,    \* the fromTimeZone parameter of getTimeZoneOffset
  timeZone,        \* the timeZone parameter (toTimeZone of getTimeZoneOffset)
  callerDate       \* the date a caller began a round trip of two searches with

vars ==
  <<pc, op, arg, holidayList, dayOffWeekdays, currentDate, result,
    formatType, formatPattern, clockYear, baseDate, clockNow, callerNow,
    fromTimeZone, timeZone, callerDate>>

dateVars == <<holidayList, dayOffWeekdays, currentDate>>

formatVars == <<formatType, formatPattern, clockYear>>

relativeVars == <<baseDate, clockNow, callerNow>>

zoneVars == <<fromTimeZone, timeZone>>

(***************************************************************************)
(* Bounds of the model.                                                    *)
(***************************************************************************)
\* number of consecutive days in each window of start dates
WindowDays == 45
\* longest holiday list supplied to a call
MaxHolidays == 2
\* the day-stepping loops are followed for at most this many steps
MaxSteps == 8

(***************************************************************************)
(* Outcomes.                                                               *)
(***************************************************************************)
Ret(v) == [kind |-> "return", value |-> v]

Throw(e) == [kind |-> "throw", error |-> e]

None == [kind |-> "none"]

\* The error classes of src/src/errors.ts that derive from DateError.
DateErrorKinds ==
  {"InvalidDateFormatError", "InvalidDateError", "UnsupportedFormatTypeError",
   "MissingParameterError", "IncompatibleOperationError"}

(***************************************************************************)
(* Characters, digits and number/string conversion.                        *)
(***************************************************************************)
DigitChars == <<"0", "1", "2", "3", "4", "5", "6", "7", "8", "9">>

IsDigit(c) == \E i \in 1..10 : DigitChars[i] = c

DigitVal(c) == (CHOOSE i \in 1..10 : DigitChars[i] = c) - 1

AllDigits(s) == \A i \in 1..Len(s) : IsDigit(s[i])

\* parseInt on a string of decimal digits
RECURSIVE parseInt(_)
parseInt(s) ==
  IF s = <<>> THEN 0
  ELSE 10 * parseInt(SubSeq(s, 1, Len(s) - 1)) + DigitVal(s[Len(s)])

\* Number.prototype.toString() of a natural number
RECURSIVE NumToString(_)
NumToString(n) ==
  IF n < 10 THEN <<DigitChars[n + 1]>>
  ELSE NumToString(n \div 10) \o <<DigitChars[(n % 10) + 1]>>

\* String.prototype.padStart(len, "0")
RECURSIVE padStart(_, _)
padStart(s, len) == IF Len(s) >= len THEN s ELSE padStart(<<"0">> \o s, len)

(***************************************************************************)
(* The ISO calendar of Temporal.PlainDate.                                 *)
(***************************************************************************)
PlainDate(y, m, d) == [year |-> y, month |-> m, day |-> d]

IsLeapYear(y) == (y % 4 = 0) /\ ((y % 100 # 0) \/ (y % 400 = 0))

DaysInMonth(y, m) ==
  IF m = 2 THEN (IF IsLeapYear(y) THEN 29 ELSE 28)
  ELSE IF m \in {4, 6, 9, 11} THEN 30 ELSE 31

IsValidISODate(y, m, d) ==
  /\ m \in 1..12
  /\ d >= 1
  /\ d <= DaysInMonth(y, m)

\* days since 1970-01-01 of a calendar date
EpochDays(date) ==
  LET y   == IF date.month <= 2 THEN date.year - 1 ELSE date.year
      era == y \div 400
      yoe == y - era * 400
      mp  == IF date.month > 2 THEN date.month - 3 ELSE date.month + 9
      doy == (153 * mp + 2) \div 5 + date.day - 1
      doe == yoe * 365 + yoe \div 4 - yoe \div 100 + doy
  IN  era * 146097 + doe - 719468

\* the calendar date of a day number
DateOfEpochDays(n) ==
  LET z   == n + 719468
      era == z \div 146097
      doe == z - era * 146097
      yoe == (doe - doe \div 1460 + doe \div 36524 - doe \div 146096) \div 365
      doy == doe - (365 * yoe + yoe \div 4 - yoe \div 100)
      mp  == (5 * doy + 2) \div 153
      d   == doy - (153 * mp + 2) \div 5 + 1
      m   == IF mp < 10 THEN mp + 3 ELSE mp - 9
      y   == yoe + era * 400
  IN  PlainDate(IF m <= 2 THEN y + 1 ELSE y, m, d)

\* PlainDate.prototype.add({ days: n }) and subtract({ days: n })
AddDays(date, n) == DateOfEpochDays(EpochDays(date) + n)

SubtractDays(date, n) == DateOfEpochDays(EpochDays(date) - n)

\* PlainDate.prototype.since(other).days (largest unit: day)
SinceDays(date, other) == EpochDays(date) - EpochDays(other)

\* PlainDate.prototype.dayOfWeek: 1 = Monday .. 7 = Sunday
DayOfWeek(date) == ((EpochDays(date) + 3) % 7) + 1

\* PlainDate.prototype.with({ day: 1 })
WithDay1(date) == PlainDate(date.year, date.month, 1)

\* a text of the fields as the numbers write them, without zeros in front
DateToStringUnpadded(date) ==
  NumToString(date.year) \o <<"-">> \o NumToString(date.month) \o <<"-">> \o NumToString(date.day)

\* PlainDate.prototype.toString(): YYYY-MM-DD
DateToString(date) ==
  padStart(NumToString(date.year), 4) \o <<"-">>
    \o padStart(NumToString(date.month), 2) \o <<"-">>
    \o padStart(NumToString(date.day), 2)

Before(a, b) == EpochDays(a) < EpochDays(b)

(***************************************************************************)
(* String helpers.                                                         *)
(***************************************************************************)
\* String.prototype.indexOf, 1-based; 0 when c does not occur
IndexOf(s, c) ==
  IF \E i \in 1..Len(s) : s[i] = c
  THEN CHOOSE i \in 1..Len(s) : s[i] = c /\ \A j \in 1..(i - 1) : s[j] # c
  ELSE 0

\* String.prototype.includes for a one-character needle
Includes(s, c) == \E i \in 1..Len(s) : s[i] = c

\* String.prototype.trim
RECURSIVE trim(_)
trim(s) ==
  IF s = <<>> THEN s
  ELSE IF s[1] = " " THEN trim(Tail(s))
  ELSE IF s[Len(s)] = " " THEN trim(SubSeq(s, 1, Len(s) - 1))
  ELSE s

\* the three fields of a string that holds exactly two separators sep, or
\* <<>> when it does not
SplitFields(s, sep) ==
  LET at == {i \in 1..Len(s) : s[i] = sep}
  IN  IF Cardinality(at) # 2 THEN <<>>
      ELSE LET i == CHOOSE x \in at : \A y \in at : x <= y
               j == CHOOSE x \in at : \A y \in at : x >= y
           IN  <<SubSeq(s, 1, i - 1), SubSeq(s, i + 1, j - 1), SubSeq(s, j + 1, Len(s))>>

\* \d{lo,hi}
DigitRun(t, lo, hi) == Len(t) >= lo /\ Len(t) <= hi /\ AllDigits(t)

(***************************************************************************)
(* The date library's own parsers and constructors (Temporal).             *)
(*                                                                         *)
(* From a string, they take the ISO 8601 forms only: the extended date     *)
(* YYYY-MM-DD or the basic date YYYYMMDD, with two-digit month and day,    *)
(* optionally followed by a separator (T, t or a space) and a wall-clock   *)
(* time HH:MM or HH:MM:SS.  The fields of a string must form a real date   *)
(* and time; nothing is constrained.  Everything else is rejected with     *)
(* the library's RangeError.                                               *)
(*                                                                         *)
(* From a property bag {year, month, day}, month and day must be positive  *)
(* (RangeError otherwise) and are then constrained into range, which is    *)
(* the default overflow option: month to 12, day to the month's last day.  *)
(***************************************************************************)
PlainTime(h, mi, sec, ms) == [hour |-> h, minute |-> mi, second |-> sec, millisecond |-> ms]

Midnight == PlainTime(0, 0, 0, 0)

TPlainDate(d) == [type |-> "PlainDate", date |-> d]

TPlainDateTime(d, t) == [type |-> "PlainDateTime", date |-> d, time |-> t]

TZonedDateTime(d, t, z) == [type |-> "ZonedDateTime", date |-> d, time |-> t, zone |-> z]

\* the time zones of the model: name (one sequence element) and UTC offset
\* text; neither zone has daylight saving time
ZoneOffsetText(z) ==
  IF z = "Asia/Seoul" THEN <<"+", "0", "9", ":", "0", "0">>
  ELSE <<"+", "0", "0", ":", "0", "0">>

KnownZones == {"Asia/Seoul", "UTC"}

IsISOTimeText(t) ==
  /\ Len(t) \in {5, 8}
  /\ \A i \in 1..Len(t) : IF i \in {3, 6} THEN t[i] = ":" ELSE IsDigit(t[i])
  /\ parseInt(SubSeq(t, 1, 2)) <= 23
  /\ parseInt(SubSeq(t, 4, 5)) <= 59
  /\ (Len(t) = 8 => parseInt(SubSeq(t, 7, 8)) <= 59)

ISOTimeOf(t) ==
  PlainTime(parseInt(SubSeq(t, 1, 2)), parseInt(SubSeq(t, 4, 5)),
            IF Len(t) = 8 THEN parseInt(SubSeq(t, 7, 8)) ELSE 0, 0)

\* the date fields of an ISO date text, or <<>> when it is not one
ISODateFields(t) ==
  IF /\ Len(t) = 10
     /\ \A i \in 1..10 : IF i \in {5, 8} THEN t[i] = "-" ELSE IsDigit(t[i])
  THEN <<parseInt(SubSeq(t, 1, 4)), parseInt(SubSeq(t, 6, 7)), parseInt(SubSeq(t, 9, 10))>>
  ELSE IF Len(t) = 8 /\ AllDigits(t)
  THEN <<parseInt(SubSeq(t, 1, 4)), parseInt(SubSeq(t, 5, 6)), parseInt(SubSeq(t, 7, 8))>>
  ELSE <<>>

\* position of the date/time separator, 0 when there is none
TimeSeparatorAt(s) ==
  LET at == {i \in 1..Len(s) : s[i] \in {"T", "t", " "}}
  IN  IF at = {} THEN 0 ELSE CHOOSE x \in at : \A y \in at : x <= y

\* a text without the [zone] annotation it may end with
StripAnnotation(t) ==
  IF Len(t) >= 3 /\ t[Len(t)] = "]" /\ t[Len(t) - 2] = "[" THEN SubSeq(t, 1, Len(t) - 3) ELSE t

\* a text without the numeric UTC offset (+hh:mm, -hh:mm) it may end with;
\* the designator Z is no numeric offset and stays
StripOffset(t) ==
  IF /\ Len(t) >= 6
     /\ t[Len(t) - 5] \in {"+", "-"}
     /\ t[Len(t) - 2] = ":"
     /\ AllDigits(SubSeq(t, Len(t) - 4, Len(t) - 3))
     /\ AllDigits(SubSeq(t, Len(t) - 1, Len(t)))
  THEN SubSeq(t, 1, Len(t) - 6) ELSE t

\* the date and time of an ISO text given its date fields f and the text
\* of its time (<<>>: no time part); a plain type ignores offset and
\* annotation and rejects Z
ISODateTimeOf(f, timeText) ==
  IF /\ f # <<>>
     /\ IsValidISODate(f[1], f[2], f[3])
     /\ timeText # <<>> => IsISOTimeText(timeText)
  THEN Ret(TPlainDateTime(PlainDate(f[1], f[2], f[3]),
                          IF timeText = <<>> THEN Midnight ELSE ISOTimeOf(timeText)))
  ELSE Throw("RangeError")

\* the ISO text split at tpos (0: no time part)
ISODateTimeAt(s, tpos) ==
  IF tpos = 0 THEN ISODateTimeOf(ISODateFields(s), <<>>)
  ELSE IF tpos = Len(s) THEN Throw("RangeError")
  ELSE ISODateTimeOf(ISODateFields(SubSeq(s, 1, tpos - 1)),
                     StripOffset(StripAnnotation(SubSeq(s, tpos + 1, Len(s)))))

\* Temporal.PlainDateTime.from(string)
TemporalPlainDateTimeFromString(s) == ISODateTimeAt(s, TimeSeparatorAt(s))

\* the date of a date-time outcome
DateOfOutcome(dt) == IF dt.kind = "throw" THEN dt ELSE Ret(dt.value.date)

\* Temporal.PlainDate.from(string): the date of the same grammar
TemporalPlainDateFromString(s) == DateOfOutcome(TemporalPlainDateTimeFromString(s))

\* Temporal.ZonedDateTime.from(string): date, time, the offset of the zone
\* and the bracketed zone name, which is required
TemporalZonedDateTimeFromString(s) ==
  LET open == IndexOf(s, "[")
  IN  IF open = 0 \/ Len(s) # open + 2 \/ open < 8 THEN Throw("RangeError")
      ELSE LET zone   == s[open + 1]
               offset == SubSeq(s, open - 6, open - 1)
               dt     == TemporalPlainDateTimeFromString(SubSeq(s, 1, open - 7))
           IN  IF /\ s[Len(s)] = "]"
                  /\ zone \in KnownZones
                  /\ offset = ZoneOffsetText(zone)
                  /\ dt.kind = "return"
                  /\ TimeSeparatorAt(s) # 0
               THEN Ret(TZonedDateTime(dt.value.date, dt.value.time, zone))
               ELSE Throw("RangeError")

\* Temporal.PlainDate.from({ year, month, day }) with the default overflow
TemporalPlainDateFromFields(y, m, d) ==
  IF m < 1 \/ d < 1 THEN Throw("RangeError")
  ELSE LET mm == IF m > 12 THEN 12 ELSE m
           dd == IF d > DaysInMonth(y, mm) THEN DaysInMonth(y, mm) ELSE d
       IN  Ret(PlainDate(y, mm, dd))

\* the date part of any Temporal value: toPlainDate()
ToPlainDateOf(v) == v.date

(***************************************************************************)
(* parseFlexibleDateString: the ordered recognizers of the flexible        *)
(* parser.  currentYear is the reading of new Date().getFullYear().        *)
(***************************************************************************)
\* try { return <native result> } catch { throw new InvalidDateError(...) }
OrInvalidDate(r) == IF r.kind = "throw" THEN Throw("InvalidDateError") ELSE r

\* the branches that build a PlainDate from three captured digit strings
FromCaptured(year, month, day) ==
  LET r == TemporalPlainDateFromFields(parseInt(year), parseInt(month), parseInt(day))
  IN  IF r.kind = "throw" THEN Throw("InvalidDateError") ELSE Ret(TPlainDate(r.value))

\* the first position from i on that holds no blank: the end of \s*
RECURSIVE SkipBlanks(_, _)
SkipBlanks(s, i) == IF i <= Len(s) /\ s[i] = " " THEN SkipBlanks(s, i + 1) ELSE i

\* the length of (\d{1,2}) at position i when marker follows it, else 0
DigitsBefore(s, i, marker) ==
  IF i + 1 <= Len(s) /\ IsDigit(s[i]) /\ s[i + 1] = marker THEN 1
  ELSE IF i + 2 <= Len(s) /\ IsDigit(s[i]) /\ IsDigit(s[i + 1]) /\ s[i + 2] = marker THEN 2
  ELSE 0

\* /(\d{4})nyeon\s*(\d{1,2})wol\s*(\d{1,2})il/ tried at position a: the
\* captured fields, or <<>> when the expression does not match there
KoreanMatchAt(s, a) ==
  IF ~(a + 4 <= Len(s) /\ s[a + 4] = "nyeon" /\ AllDigits(SubSeq(s, a, a + 3))) THEN <<>>
  ELSE LET mStart == SkipBlanks(s, a + 5)
           ml     == DigitsBefore(s, mStart, "wol")
           dStart == SkipBlanks(s, mStart + ml + 1)
           dl     == DigitsBefore(s, dStart, "il")
       IN  IF ml = 0 \/ dl = 0 THEN <<>>
           ELSE <<SubSeq(s, a, a + 3), SubSeq(s, mStart, mStart + ml - 1),
                  SubSeq(s, dStart, dStart + dl - 1)>>

\* String.prototype.match of the unanchored Korean expression: the match
\* at the leftmost position, or <<>>
KoreanMatch(s) ==
  LET at == {a \in 1..Len(s) : KoreanMatchAt(s, a) # <<>>}
  IN  IF at = {} THEN <<>>
      ELSE KoreanMatchAt(s, CHOOSE a \in at : \A b \in at : a <= b)

\* /^(\d{2,4})\.(\d{1,2})\.(\d{1,2})$/
DotMatch(s) ==
  LET f == SplitFields(s, ".")
  IN  IF f # <<>> /\ DigitRun(f[1], 2, 4) /\ DigitRun(f[2], 1, 2) /\ DigitRun(f[3], 1, 2)
      THEN f ELSE <<>>

\* /^(\d{1,4})\/(\d{1,2})\/(\d{1,4})$/
SlashMatch(s) ==
  LET f == SplitFields(s, "/")
  IN  IF f # <<>> /\ DigitRun(f[1], 1, 4) /\ DigitRun(f[2], 1, 2) /\ DigitRun(f[3], 1, 4)
      THEN f ELSE <<>>

\* /^(\d{4})(\d{2})(\d{2})$/
CompactMatch(s) ==
  IF DigitRun(s, 8, 8) THEN <<SubSeq(s, 1, 4), SubSeq(s, 5, 6), SubSeq(s, 7, 8)>> ELSE <<>>

\* /^\d{4}-\d{1,2}-\d{1,2}$/.test(trimmed)
ISODateTest(s) ==
  LET f == SplitFields(s, "-")
  IN  f # <<>> /\ DigitRun(f[1], 4, 4) /\ DigitRun(f[2], 1, 2) /\ DigitRun(f[3], 1, 2)

\* /^(\d{4})-(\d{1,2})-(\d{1,2})$/
DashMatch(s) ==
  LET f == SplitFields(s, "-")
  IN  IF f # <<>> /\ DigitRun(f[1], 4, 4) /\ DigitRun(f[2], 1, 2) /\ DigitRun(f[3], 1, 2)
      THEN f ELSE <<>>

\* an expansion with a window: a two-digit year past the current one is
\* put in the century before
ExpandTwoDigitYearWindowed(twoDigits, currentYear) ==
  NumToString((currentYear \div 100) * 100 + parseInt(twoDigits)
              - (IF parseInt(twoDigits) > currentYear % 100 THEN 100 ELSE 0))

\* Math.floor(currentYear / 100) * 100 + parseInt(twoDigits), as a string
ExpandTwoDigitYear(twoDigits, currentYear) ==
  NumToString((currentYear \div 100) * 100 + parseInt(twoDigits))

\* a slash branch that reads a long third field as DD/MM/YYYY
SlashFieldsDayFirst(f, currentYear) ==
  IF Len(f[1]) = 4 THEN <<f[1], f[2], f[3]>>
  ELSE IF Len(f[3]) <= 2 THEN <<ExpandTwoDigitYear(f[3], currentYear), f[1], f[2]>>
  ELSE <<f[3], f[2], f[1]>>

\* a slash branch that never reads the first field as the year
SlashFieldsYearLast(f, currentYear) ==
  IF Len(f[3]) <= 2 THEN <<ExpandTwoDigitYear(f[3], currentYear), f[1], f[2]>>
  ELSE <<f[3], f[1], f[2]>>

\* the year, month and day strings the slash branch settles on
SlashFields(f, currentYear) ==
  IF Len(f[1]) = 4 THEN <<f[1], f[2], f[3]>>
  ELSE IF Len(f[3]) <= 2 THEN <<ExpandTwoDigitYear(f[3], currentYear), f[1], f[2]>>
  ELSE <<f[3], f[1], f[2]>>

\* the format families the fallback's error lists
SupportedFormats ==
  << "ISO 8601 (YYYY-MM-DD)",
     "ISO DateTime (YYYY-MM-DDTHH:mm:ss)",
     "ISO with timezone (YYYY-MM-DDTHH:mm:ss+09:00[Asia/Seoul])",
     "Korean format (2024nyeon 1wol 15il)",
     "Dot separated (2024.01.15)",
     "Slash separated (2024/01/15)",
     "Compact format (20240115)" >>

\* new InvalidDateFormatError(dateString, supportedFormats), thrown: the
\* message is made of the string and of the list
InvalidDateFormatError(dateString, supportedFormats) ==
  [kind |-> "throw", error |-> "InvalidDateFormatError",
   dateString |-> dateString, supportedFormats |-> supportedFormats]

\* the outcome of the fallback given the outcomes of the three native parsers
FirstAccepted(d, dt, z, dateString) ==
  IF d.kind = "return" THEN Ret(TPlainDate(d.value))
  ELSE IF dt.kind = "return" THEN dt
  ELSE IF z.kind = "return" THEN z
  ELSE InvalidDateFormatError(dateString, SupportedFormats)

\* a fallback whose error names the trimmed string
NativeFallbackTrimmed(trimmed, dateString) ==
  FirstAccepted(TemporalPlainDateFromString(trimmed),
                TemporalPlainDateTimeFromString(trimmed),
                TemporalZonedDateTimeFromString(trimmed), trimmed)

\* the native fallback: PlainDate, then PlainDateTime, then ZonedDateTime
NativeFallback(trimmed, dateString) ==
  FirstAccepted(TemporalPlainDateFromString(trimmed),
                TemporalPlainDateTimeFromString(trimmed),
                TemporalZonedDateTimeFromString(trimmed), dateString)

\* the ISO date branch: Temporal.PlainDate.from(trimmed) on the string
ISODateBranch(trimmed) ==
  LET d == TemporalPlainDateFromString(trimmed)
  IN  IF d.kind = "throw" THEN Throw("InvalidDateError") ELSE Ret(TPlainDate(d.value))

parseFlexibleDateString(dateString, currentYear) ==
  LET trimmed == trim(dateString)
      korean  == KoreanMatch(trimmed)
      dot     == DotMatch(trimmed)
      slash   == SlashMatch(trimmed)
      compact == CompactMatch(trimmed)
      dash    == DashMatch(trimmed)
      isoDate == ISODateTest(trimmed)
  IN  IF /\ Includes(trimmed, "T")
         /\ (Includes(trimmed, "+") \/ Includes(trimmed, "Z") \/ Includes(trimmed, "["))
      THEN OrInvalidDate(TemporalZonedDateTimeFromString(trimmed))
      ELSE IF Includes(trimmed, "T")
      THEN OrInvalidDate(TemporalPlainDateTimeFromString(trimmed))
      ELSE IF isoDate
      THEN ISODateBranch(trimmed)
      ELSE IF korean # <<>>
      THEN FromCaptured(korean[1], korean[2], korean[3])
      ELSE IF dot # <<>>
      THEN FromCaptured(IF Len(dot[1]) = 2 THEN ExpandTwoDigitYear(dot[1], currentYear)
                        ELSE dot[1], dot[2], dot[3])
      ELSE IF slash # <<>>
      THEN LET f == SlashFields(slash, currentYear) IN FromCaptured(f[1], f[2], f[3])
      ELSE IF compact # <<>>
      THEN FromCaptured(compact[1], compact[2], compact[3])
      ELSE IF dash # <<>>
      THEN FromCaptured(dash[1], dash[2], dash[3])
      ELSE NativeFallback(trimmed, dateString)

(***************************************************************************)
(* format, formatCustom, formatKorean                                      *)
(***************************************************************************)
\* String.prototype.replace(/token/g, replacement): every occurrence, left
\* to right, without overlap; the replacement is not scanned again
RECURSIVE ReplaceAll(_, _, _)
ReplaceAll(s, token, replacement) ==
  IF Len(s) < Len(token) THEN s
  ELSE IF SubSeq(s, 1, Len(token)) = token
  THEN replacement \o ReplaceAll(SubSeq(s, Len(token) + 1, Len(s)), token, replacement)
  ELSE <<s[1]>> \o ReplaceAll(Tail(s), token, replacement)

\* String.prototype.replace("T", " "): the first occurrence only
ReplaceFirstT(s) ==
  LET i == IndexOf(s, "T")
  IN  IF i = 0 THEN s ELSE SubSeq(s, 1, i - 1) \o <<" ">> \o SubSeq(s, i + 1, Len(s))

RECURSIVE StripTrailingZeros(_)
StripTrailingZeros(s) ==
  IF s # <<>> /\ s[Len(s)] = "0" THEN StripTrailingZeros(SubSeq(s, 1, Len(s) - 1)) ELSE s

\* PlainTime.prototype.toString(): HH:MM:SS and the fraction when not zero
TimeToString(t) ==
  padStart(NumToString(t.hour), 2) \o <<":">>
    \o padStart(NumToString(t.minute), 2) \o <<":">>
    \o padStart(NumToString(t.second), 2)
    \o (IF t.millisecond = 0 THEN <<>>
        ELSE <<".">> \o StripTrailingZeros(padStart(NumToString(t.millisecond), 3)))

\* toString() of a Temporal value
TemporalToString(v) ==
  IF v.type = "PlainDate" THEN DateToString(v.date)
  ELSE IF v.type = "PlainDateTime" THEN DateToString(v.date) \o <<"T">> \o TimeToString(v.time)
  ELSE DateToString(v.date) \o <<"T">> \o TimeToString(v.time)
         \o ZoneOffsetText(v.zone) \o <<"[", v.zone, "]">>

\* a replacement that takes the two-letter year token before the
\* four-letter one
formatCustomShortFirst(date, pattern) ==
  LET plainDate == ToPlainDateOf(date)
      r1 == ReplaceAll(pattern, <<"Y", "Y">>, padStart(NumToString(plainDate.year % 100), 2))
      r2 == ReplaceAll(r1, <<"Y", "Y", "Y", "Y">>, padStart(NumToString(plainDate.year), 4))
      r3 == ReplaceAll(r2, <<"M", "M">>, padStart(NumToString(plainDate.month), 2))
      r4 == ReplaceAll(r3, <<"M">>, NumToString(plainDate.month))
      r5 == ReplaceAll(r4, <<"D", "D">>, padStart(NumToString(plainDate.day), 2))
      r6 == ReplaceAll(r5, <<"D">>, NumToString(plainDate.day))
  IN  IF date.type = "PlainDate" THEN r6
      ELSE LET plainTime == date.time
               t1 == ReplaceAll(r6, <<"H", "H">>, padStart(NumToString(plainTime.hour), 2))
               t2 == ReplaceAll(t1, <<"H">>, NumToString(plainTime.hour))
               t3 == ReplaceAll(t2, <<"m", "m">>, padStart(NumToString(plainTime.minute), 2))
               t4 == ReplaceAll(t3, <<"m">>, NumToString(plainTime.minute))
               t5 == ReplaceAll(t4, <<"s", "s">>, padStart(NumToString(plainTime.second), 2))
           IN  ReplaceAll(t5, <<"s">>, NumToString(plainTime.second))

formatCustom(date, pattern) ==
  LET plainDate == ToPlainDateOf(date)
      r1 == ReplaceAll(pattern, <<"Y", "Y", "Y", "Y">>, padStart(NumToString(plainDate.year), 4))
      r2 == ReplaceAll(r1, <<"Y", "Y">>, padStart(NumToString(plainDate.year % 100), 2))
      r3 == ReplaceAll(r2, <<"M", "M">>, padStart(NumToString(plainDate.month), 2))
      r4 == ReplaceAll(r3, <<"M">>, NumToString(plainDate.month))
      r5 == ReplaceAll(r4, <<"D", "D">>, padStart(NumToString(plainDate.day), 2))
      r6 == ReplaceAll(r5, <<"D">>, NumToString(plainDate.day))
  IN  IF date.type = "PlainDate" THEN r6
      ELSE LET plainTime == date.time
               t1 == ReplaceAll(r6, <<"H", "H">>, padStart(NumToString(plainTime.hour), 2))
               t2 == ReplaceAll(t1, <<"H">>, NumToString(plainTime.hour))
               t3 == ReplaceAll(t2, <<"m", "m">>, padStart(NumToString(plainTime.minute), 2))
               t4 == ReplaceAll(t3, <<"m">>, NumToString(plainTime.minute))
               t5 == ReplaceAll(t4, <<"s", "s">>, padStart(NumToString(plainTime.second), 2))
           IN  ReplaceAll(t5, <<"s">>, NumToString(plainTime.second))

FormatTypes == {"date", "time", "datetime", "iso", "custom"}

\* a format argument is a string or a Temporal value
TemporalArg(v) == [kind |-> "Temporal", value |-> v]

\* the formatString argument left out: undefined
Absent == <<"undefined">>

\* case "date"
FormatDate(temporalDate) == Ret(DateToString(ToPlainDateOf(temporalDate)))

\* a "time" case that gives a PlainDate the time of midnight
FormatTimeDefaulted(temporalDate) ==
  IF temporalDate.type = "PlainDate" THEN Ret(TimeToString(Midnight))
  ELSE Ret(TimeToString(temporalDate.time))

\* case "time"
FormatTime(temporalDate) ==
  IF temporalDate.type = "PlainDate" THEN Throw("IncompatibleOperationError")
  ELSE Ret(TimeToString(temporalDate.time))

\* case "datetime"
FormatDateTime(temporalDate) ==
  IF temporalDate.type = "PlainDate"
  THEN Ret(DateToString(temporalDate.date) \o <<" ", "0", "0", ":", "0", "0", ":", "0", "0">>)
  ELSE Ret(ReplaceFirstT(TemporalToString(TPlainDateTime(temporalDate.date, temporalDate.time))))

\* a "custom" case that refuses the letters of time tokens for a PlainDate,
\* as the "time" case refuses a PlainDate
FormatCustomRefusingTime(temporalDate, formatString) ==
  IF formatString = Absent \/ formatString = <<>> THEN Throw("MissingParameterError")
  ELSE IF /\ temporalDate.type = "PlainDate"
          /\ \E i \in 1..Len(formatString) : formatString[i] \in {"H", "m", "s"}
  THEN Throw("IncompatibleOperationError")
  ELSE Ret(formatCustom(temporalDate, formatString))

\* case "custom": !formatString holds of undefined and of the empty string
FormatCustom(temporalDate, formatString) ==
  IF formatString = Absent \/ formatString = <<>> THEN Throw("MissingParameterError")
  ELSE Ret(formatCustom(temporalDate, formatString))

\* switch (type)
FormatSwitch(temporalDate, type, formatString) ==
  IF type = "date" THEN FormatDate(temporalDate)
  ELSE IF type = "time" THEN FormatTime(temporalDate)
  ELSE IF type = "datetime" THEN FormatDateTime(temporalDate)
  ELSE IF type = "iso" THEN Ret(TemporalToString(temporalDate))
  ELSE IF type = "custom" THEN FormatCustom(temporalDate, formatString)
  ELSE Throw("UnsupportedFormatTypeError")

\* the body of format once the argument is a Temporal value or has thrown
FormatParsed(parsed, type, formatString) ==
  IF parsed.kind = "throw" THEN parsed ELSE FormatSwitch(parsed.value, type, formatString)

format(date, type, formatString, currentYear) ==
  FormatParsed(IF date.kind = "string" THEN parseFlexibleDateString(date.text, currentYear)
               ELSE Ret(date.value),
               type, formatString)

\* a Korean pattern with the two-digit year
KoreanPatternShortYear == <<"Y", "Y", "nyeon", " ", "M", "wol", " ", "D", "il">>

\* "YYYY<nyeon> M<wol> D<il>"
KoreanPattern == <<"Y", "Y", "Y", "Y", "nyeon", " ", "M", "wol", " ", "D", "il">>

formatKorean(date, currentYear) == format(date, "custom", KoreanPattern, currentYear)

(***************************************************************************)
(* formatRelative                                                          *)
(***************************************************************************)
\* the UTC offset of a zone of the model, in minutes
ZoneOffsetMinutes(z) == IF z = "Asia/Seoul" THEN 540 ELSE 0

\* the milliseconds of a time of day
TimeOfDayMs(t) == ((t.hour * 60 + t.minute) * 60 + t.second) * 1000 + t.millisecond

\* toZonedDateTime("Asia/Seoul") of a PlainDateTime, of a PlainDate at
\* 00:00:00; a ZonedDateTime is taken as it is
ToZonedSeoul(v) ==
  IF v.type = "ZonedDateTime" THEN v
  ELSE IF v.type = "PlainDateTime" THEN TZonedDateTime(v.date, v.time, "Asia/Seoul")
  ELSE TZonedDateTime(v.date, Midnight, "Asia/Seoul")

\* a / b rounded toward zero
TruncDiv(a, b) == IF a >= 0 THEN a \div b ELSE -((-a) \div b)

\* days, hours and minutes of a difference of dayDiff days and timeDiff
\* milliseconds of time of day, all of one sign
BalancedDuration(dayDiff, timeDiff) ==
  LET days == IF dayDiff > 0 /\ timeDiff < 0 THEN dayDiff - 1
              ELSE IF dayDiff < 0 /\ timeDiff > 0 THEN dayDiff + 1
              ELSE dayDiff
      rest == IF dayDiff > 0 /\ timeDiff < 0 THEN timeDiff + 86400000
              ELSE IF dayDiff < 0 /\ timeDiff > 0 THEN timeDiff - 86400000
              ELSE timeDiff
  IN  [days |-> days,
       hours |-> TruncDiv(rest, 3600000),
       minutes |-> TruncDiv(rest - TruncDiv(rest, 3600000) * 3600000, 60000)]

\* ZonedDateTime.prototype.since(base, { largestUnit: "day" }): days are
\* counted on the wall clock of the zone, so two zones that differ are
\* refused; the zones of the model have days of 24 hours
ZonedSince(target, base) ==
  IF target.zone # base.zone THEN Throw("RangeError")
  ELSE Ret(BalancedDuration(EpochDays(target.date) - EpochDays(base.date),
                            TimeOfDayMs(target.time) - TimeOfDayMs(base.time)))

Abs(n) == IF n < 0 THEN -n ELSE n

\* the Korean words: "il" day, "sigan" hour, "bun" minute, "hu" later,
\* "jeon" ago, "banggeum jeon" just now
RelativeText(duration) ==
  IF Abs(duration.days) >= 1
  THEN NumToString(Abs(duration.days)) \o <<"il", " ">>
         \o (IF duration.days > 0 THEN <<"hu">> ELSE <<"jeon">>)
  ELSE IF Abs(duration.hours) >= 1
  THEN NumToString(Abs(duration.hours)) \o <<"sigan", " ">>
         \o (IF duration.hours > 0 THEN <<"hu">> ELSE <<"jeon">>)
  ELSE IF Abs(duration.minutes) >= 1
  THEN NumToString(Abs(duration.minutes)) \o <<"bun", " ">>
         \o (IF duration.minutes > 0 THEN <<"hu">> ELSE <<"jeon">>)
  ELSE <<"banggeum", " ", "jeon">>

\* the text of a duration, or the fault of since
RelativeOfDuration(duration) ==
  IF duration.kind = "throw" THEN duration ELSE Ret(RelativeText(duration.value))

\* the body of formatRelative once the target is parsed or has thrown
RelativeOfParsed(parsed, base) ==
  IF parsed.kind = "throw" THEN parsed
  ELSE RelativeOfDuration(ZonedSince(ToZonedSeoul(parsed.value), base))

\* baseDate is None when the argument is left out; now is the reading of
\* Temporal.Now.zonedDateTimeISO("Asia/Seoul")
formatRelative(date, base, now, currentYear) ==
  RelativeOfParsed(IF date.kind = "string" THEN parseFlexibleDateString(date.text, currentYear)
                   ELSE Ret(date.value),
                   IF base.kind = "none" THEN now ELSE base.value)

(***************************************************************************)
(* Arguments: a date argument is a string or a Temporal.PlainDate.         *)
(***************************************************************************)
StringArg(s) == [kind |-> "string", text |-> s]

PlainDateArg(d) == [kind |-> "PlainDate", date |-> d]

\* a conversion that sends a string through the flexible parser and takes
\* the date of what it gives
ToPlainDateFlexible(date) ==
  IF date.kind = "string"
  THEN DateOfOutcome(parseFlexibleDateString(date.text, 2024))
  ELSE Ret(date.date)

\* typeof date === "string" ? Temporal.PlainDate.from(date) : date
ToPlainDate(date) ==
  IF date.kind = "string" THEN TemporalPlainDateFromString(date.text) ELSE Ret(date.date)

(***************************************************************************)
(* isWorkday                                                               *)
(***************************************************************************)
\* the comparison of a recurring holiday: month and day
SameMonthDay(holidayDate, plainDate) ==
  IF holidayDate.kind = "throw" THEN holidayDate
  ELSE Ret(holidayDate.value.month = plainDate.month
           /\ holidayDate.value.day = plainDate.day)

\* a callback that compares the whole date also for a recurring holiday
HolidayMatchesExact(holiday, plainDate) == Ret(holiday.date = DateToString(plainDate))

\* the callback of holidayList.some(...)
HolidayMatches(holiday, plainDate) ==
  IF holiday.recurring
  THEN SameMonthDay(TemporalPlainDateFromString(holiday.date), plainDate)
  ELSE Ret(holiday.date = DateToString(plainDate))

\* Array.prototype.some from index i on: stops at the first match or throw
RECURSIVE HolidaySome(_, _, _)
SomeFrom(m, list, i, plainDate) ==
  IF m.kind = "throw" THEN m
  ELSE IF m.value THEN Ret(TRUE)
  ELSE HolidaySome(list, i + 1, plainDate)

HolidaySome(list, i, plainDate) ==
  IF i > Len(list) THEN Ret(FALSE)
  ELSE SomeFrom(HolidayMatches(list[i], plainDate), list, i, plainDate)

\* return !isHoliday
NotHoliday(isHoliday) ==
  IF isHoliday.kind = "throw" THEN isHoliday ELSE Ret(~isHoliday.value)

\* a body that examines the holiday list before the weekday
isWorkdayOnHolidaysFirst(plainDate, list, dayOff) ==
  IF plainDate.kind = "throw" THEN plainDate
  ELSE IF HolidaySome(list, 1, plainDate.value).kind = "throw"
  THEN HolidaySome(list, 1, plainDate.value)
  ELSE IF DayOfWeek(plainDate.value) \in dayOff THEN Ret(FALSE)
  ELSE NotHoliday(HolidaySome(list, 1, plainDate.value))

\* the body of isWorkday once the argument is a PlainDate or has thrown
isWorkdayOn(plainDate, list, dayOff) ==
  IF plainDate.kind = "throw" THEN plainDate
  ELSE IF DayOfWeek(plainDate.value) \in dayOff THEN Ret(FALSE)
  ELSE NotHoliday(HolidaySome(list, 1, plainDate.value))

\* an isWorkday that adds the caller's days off to Saturday and Sunday
isWorkdayKeepsWeekend(date, list, dayOff) ==
  isWorkdayOn(ToPlainDate(date), list, dayOff \cup {6, 7})

isWorkday(date, list, dayOff) == isWorkdayOn(ToPlainDate(date), list, dayOff)

(***************************************************************************)
(* getWeekDay, getWeekNum                                                  *)
(***************************************************************************)
getWeekDayOn(plainDate) ==
  IF plainDate.kind = "throw" THEN plainDate ELSE Ret(DayOfWeek(plainDate.value))

getWeekDay(date) == getWeekDayOn(ToPlainDate(date))

\* a week number that reports the month and year of the date itself
WeekNumOfOwnMonth(plainDate) ==
  LET mondayOfWeek       == SubtractDays(plainDate, DayOfWeek(plainDate) - 1)
      firstDayOfMonth    == WithDay1(mondayOfWeek)
      firstDayWeekday    == DayOfWeek(firstDayOfMonth)
      daysToFirstMonday  == IF firstDayWeekday = 1 THEN 0 ELSE 8 - firstDayWeekday
      firstMondayOfMonth == AddDays(firstDayOfMonth, daysToFirstMonday)
      daysDiff           == SinceDays(mondayOfWeek, firstMondayOfMonth)
  IN  [month |-> plainDate.month, year |-> plainDate.year, weekNum |-> (daysDiff \div 7) + 1]

\* a week number counted from the week that holds the 1st of the month
WeekNumByFirstDay(plainDate) ==
  LET mondayOfWeek    == SubtractDays(plainDate, DayOfWeek(plainDate) - 1)
      firstDayWeekday == DayOfWeek(WithDay1(mondayOfWeek))
  IN  [month |-> mondayOfWeek.month, year |-> mondayOfWeek.year,
       weekNum |-> ((mondayOfWeek.day + firstDayWeekday - 2) \div 7) + 1]

\* a week number that takes the first Monday to be 8 - weekday days after
\* the 1st even when the 1st is a Monday
WeekNumLateFirstMonday(plainDate) ==
  LET mondayOfWeek       == SubtractDays(plainDate, DayOfWeek(plainDate) - 1)
      firstDayOfMonth    == WithDay1(mondayOfWeek)
      firstMondayOfMonth == AddDays(firstDayOfMonth, 8 - DayOfWeek(firstDayOfMonth))
      daysDiff           == SinceDays(mondayOfWeek, firstMondayOfMonth)
  IN  [month |-> mondayOfWeek.month, year |-> mondayOfWeek.year,
       weekNum |-> (daysDiff \div 7) + 1]

WeekNumOfDate(plainDate) ==
  LET dayOfWeek          == DayOfWeek(plainDate)
      daysFromMonday     == dayOfWeek - 1
      mondayOfWeek       == SubtractDays(plainDate, daysFromMonday)
      targetMonth        == mondayOfWeek.month
      targetYear         == mondayOfWeek.year
      firstDayOfMonth    == WithDay1(mondayOfWeek)
      firstDayWeekday    == DayOfWeek(firstDayOfMonth)
      daysToFirstMonday  == IF firstDayWeekday = 1 THEN 0 ELSE 8 - firstDayWeekday
      firstMondayOfMonth == AddDays(firstDayOfMonth, daysToFirstMonday)
      daysDiff           == SinceDays(mondayOfWeek, firstMondayOfMonth)
      weekNum            == (daysDiff \div 7) + 1
  IN  [month |-> targetMonth, year |-> targetYear, weekNum |-> weekNum]

getWeekNumOn(plainDate) ==
  IF plainDate.kind = "throw" THEN plainDate ELSE Ret(WeekNumOfDate(plainDate.value))

getWeekNum(date) == getWeekNumOn(ToPlainDate(date))

(***************************************************************************)
(* Inputs of the calls.                                                    *)
(***************************************************************************)
\* first days of the two windows of start dates: one holds the documented
\* examples of January 2024, the other the turn of the year 2024/2025
WindowStarts == {PlainDate(2023, 12, 25), PlainDate(2024, 12, 20)}

StartDates == {AddDays(b, i) : b \in WindowStarts, i \in 0..(WindowDays - 1)}

Holiday(text, rec) == [date |-> text, recurring |-> rec]

\* "2024-01-15", "2024-01-12" and "2024-01-02" apply to one year only;
\* "2024-01-01" recurs; "2024-02-30" recurs and is no calendar date
HolidayPool ==
  { Holiday(<<"2", "0", "2", "4", "-", "0", "1", "-", "1", "5">>, FALSE),
    Holiday(<<"2", "0", "2", "4", "-", "0", "1", "-", "1", "2">>, FALSE),
    Holiday(<<"2", "0", "2", "4", "-", "0", "1", "-", "0", "2">>, FALSE),
    Holiday(<<"2", "0", "2", "4", "-", "0", "1", "-", "0", "1">>, TRUE),
    Holiday(<<"2", "0", "2", "4", "-", "0", "2", "-", "3", "0">>, TRUE) }

HolidayLists ==
  UNION {[1..n -> HolidayPool] : n \in 0..MaxHolidays}

\* the default [6, 7], a Friday-Saturday weekend, no day off, every day off
WeekdaySets == {{6, 7}, {5, 6}, {}, 1..7}

\* the spellings of a date: year, month and day texts in one of the shapes
Shapes == {"iso", "dot", "slash", "slashMDY", "korean", "koreanTight", "compact"}

Spell(shape, y, m, d) ==
  IF shape = "iso" THEN y \o <<"-">> \o m \o <<"-">> \o d
  ELSE IF shape = "dot" THEN y \o <<".">> \o m \o <<".">> \o d
  ELSE IF shape = "slash" THEN y \o <<"/">> \o m \o <<"/">> \o d
  ELSE IF shape = "slashMDY" THEN m \o <<"/">> \o d \o <<"/">> \o y
  ELSE IF shape = "korean" THEN y \o <<"nyeon", " ">> \o m \o <<"wol", " ">> \o d \o <<"il">>
  ELSE IF shape = "koreanTight" THEN y \o <<"nyeon">> \o m \o <<"wol">> \o d \o <<"il">>
  ELSE y \o m \o d

YearTexts == {<<"2", "0", "2", "4">>, <<"2", "4">>}

MonthTexts == {<<"1">>, <<"0", "1">>, <<"0", "2">>, <<"1", "2">>, <<"1", "3">>, <<"0">>}

DayTexts ==
  {<<"1">>, <<"0", "1">>, <<"1", "5">>, <<"2", "9">>, <<"3", "0">>, <<"3", "1">>,
   <<"3", "2">>, <<"0">>}

\* strings of no date shape, with a time or a zone, or with blanks around
OtherStrings ==
  { <<"i", "n", "v", "a", "l", "i", "d", "-", "d", "a", "t", "e">>,
    <<>>,
    <<"2", "0", "2", "4", "-", "0", "1", "-", "1", "5", "T", "1", "4", ":", "3", "0", ":", "0", "0">>,
    <<"2", "0", "2", "4", "-", "0", "2", "-", "3", "0", "T", "1", "4", ":", "3", "0", ":", "0", "0">>,
    <<"2", "0", "2", "4", "-", "0", "1", "-", "1", "5", " ", "1", "4", ":", "3", "0">>,
    <<"2", "0", "2", "4", "-", "0", "1", "-", "1", "5", "T", "1", "4", ":", "3", "0", ":", "0", "0",
      "+", "0", "9", ":", "0", "0", "[", "Asia/Seoul", "]">>,
    <<"2", "0", "2", "4", "-", "0", "1", "-", "1", "5", "T", "1", "4", ":", "3", "0", ":", "0", "0", "Z">>,
    <<" ", "2", "0", "2", "4", ".", "0", "1", ".", "1", "5", " ">>,
    <<" ", "2", "0", "2", "4", "-", "0", "1", "-", "1", "5">> }

\* spellings of 15 January 987: a year group of three digits, and the
\* year written with four
OldYearStrings ==
  { <<"9", "8", "7", ".", "1", ".", "1", "5">>,
    <<"1", "/", "1", "5", "/", "9", "8", "7">>,
    <<"0", "9", "8", "7", "-", "0", "1", "-", "1", "5">>,
    <<"0", "9", "8", "7", "nyeon", " ", "1", "wol", " ", "1", "5", "il">> }

\* strings no recognizer takes and no native parser accepts, the second
\* with blanks around it
UnrecognizedStrings ==
  { <<"2", "0", "2", "4", "-", "0", "1">>,
    <<" ", "2", "0", "2", "4", "-", "0", "1", " ">> }

\* the strings given to the flexible parser
ParserStrings ==
  {Spell(sh, y, m, d) : sh \in Shapes, y \in YearTexts, m \in MonthTexts, d \in DayTexts}
    \cup OtherStrings \cup OldYearStrings \cup UnrecognizedStrings

\* string arguments of the date functions: every shape of 12 January 2024
\* and 31 December 2024, and spellings with fields out of range
DateStrings ==
  {Spell(sh, <<"2", "0", "2", "4">>, md[1], md[2]) :
     sh \in Shapes,
     md \in {<<<<"0", "1">>, <<"1", "2">>>>, <<<<"1", "2">>, <<"3", "1">>>>,
             <<<<"1">>, <<"1", "2">>>>, <<<<"1", "3">>, <<"1", "2">>>>,
             <<<<"0", "2">>, <<"3", "0">>>>}}
    \cup OtherStrings

\* Temporal values given to format
TemporalValues ==
  { TPlainDate(PlainDate(2024, 1, 15)),
    TPlainDate(PlainDate(2024, 12, 5)),
    TPlainDateTime(PlainDate(2024, 1, 15), PlainTime(14, 30, 45, 0)),
    TPlainDateTime(PlainDate(2024, 1, 15), PlainTime(9, 5, 7, 120)),
    TZonedDateTime(PlainDate(2024, 1, 15), PlainTime(14, 30, 0, 0), "Asia/Seoul"),
    TZonedDateTime(PlainDate(2024, 1, 15), PlainTime(5, 30, 0, 500), "UTC") }

FormatArgs == {StringArg(s) : s \in ParserStrings} \cup {TemporalArg(v) : v \in TemporalValues}

\* the type arguments: the five types and one outside them
TypeArgs == FormatTypes \cup {"unknown"}

\* left out, empty, "YYYY/MM/DD HH:mm", "M/D/YY", "YYYY-MM-DD HH:mm:ss",
\* "YYYYY MMM DDD HHH mmm sss" and the pattern of formatKorean
PatternArgs ==
  { Absent,
    <<>>,
    <<"Y", "Y", "Y", "Y", "Y", " ", "M", "M", "M", " ", "D", "D", "D", " ",
      "H", "H", "H", " ", "m", "m", "m", " ", "s", "s", "s">>,
    <<"Y", "Y", "Y", "Y", "/", "M", "M", "/", "D", "D", " ", "H", "H", ":", "m", "m">>,
    <<"M", "/", "D", "/", "Y", "Y">>,
    <<"Y", "Y", "Y", "Y", "-", "M", "M", "-", "D", "D", " ", "H", "H", ":", "m", "m", ":", "s", "s">>,
    <<"Y", "Y", "Y", "Y", "-", "M", "M", "-", "D", "D", " ", "H", "H", ":", "m", "m">>,
    <<"D", ".", "M", " ", "H", "s", "m">>,
    KoreanPattern }

\* the years the clock may show
ClockYears == {1999, 2024, 2100}

DateArgs == {PlainDateArg(d) : d \in StartDates} \cup {StringArg(s) : s \in DateStrings}

\* noon of 15 January 2024 in Seoul, the base of the documented example
Noon == TZonedDateTime(PlainDate(2024, 1, 15), PlainTime(12, 0, 0, 0), "Asia/Seoul")

\* the value n seconds and ms milliseconds of wall clock after v
Shifted(v, n, ms) ==
  LET total == TimeOfDayMs(v.time) \div 1000 + n
      tod   == total % 86400
  IN  [v EXCEPT !.date = AddDays(v.date, total \div 86400),
                !.time = PlainTime(tod \div 3600, (tod % 3600) \div 60, tod % 60, ms)]

\* distances in seconds on both sides of a minute, an hour and a day
ShiftSeconds ==
  {-183600, -86400, -86399, -7200, -3600, -3599, -300, -60, -59, -30, 0,
   30, 59, 60, 300, 3599, 3600, 7200, 86399, 86400, 259200}

\* the explicit bases: noon in Seoul, half a second later, and the same
\* instant as noon written in UTC
BaseValues ==
  {Noon, Shifted(Noon, 0, 500),
   TZonedDateTime(PlainDate(2024, 1, 15), PlainTime(3, 0, 0, 0), "UTC")}

\* None stands for a baseDate left out
BaseArgs == {TemporalArg(b) : b \in BaseValues} \cup {None}

\* the readings of the clock in Seoul
ClockReadings == {Shifted(Noon, 0, 250), Shifted(Noon, 30, 0)}

\* what the caller reads from the clock: noon, and half past eleven at night
FirstReadings == {Noon, Shifted(Noon, 41400, 0)}

\* the targets a caller makes of its reading: a day and two hours later, a
\* day, five minutes and thirty seconds earlier
NowShifts == {86400, 7200, -86400, -300, -30}

\* the time between the caller's reading and the function's: seconds and
\* milliseconds, from none to just under a minute
Delays == {<<0, 0>>, <<0, 1>>, <<0, 250>>, <<30, 0>>, <<59, 999>>}

\* the documented target "2024-01-16T12:00:00+09:00[Asia/Seoul]"
NextNoonText ==
  <<"2", "0", "2", "4", "-", "0", "1", "-", "1", "6", "T", "1", "2", ":", "0", "0", ":", "0", "0",
    "+", "0", "9", ":", "0", "0", "[", "Asia/Seoul", "]">>

\* targets of formatRelative: zoned values around noon, the Temporal values
\* of format, and strings
RelativeArgs ==
  {TemporalArg(Shifted(Noon, n, 0)) : n \in ShiftSeconds}
    \cup {TemporalArg(v) : v \in TemporalValues}
    \cup {StringArg(t) : t \in DateStrings \cup {NextNoonText}}

(***************************************************************************)
(* The time zone module.  An instant is a count of days since 1970-01-01   *)
(* and the milliseconds of that day, both in UTC, so that no number        *)
(* leaves the 32-bit range.  The offsets are those of the time zone        *)
(* database from 1987 on: Asia/Seoul is at +09:00 with daylight saving     *)
(* time (+10:00) in the summers of 1987 and 1988, America/New_York at      *)
(* -05:00 with daylight saving time (-04:00) every summer, Asia/Tokyo at   *)
(* +09:00, Asia/Kolkata at +05:30.  A ZonedDateTime that a conversion      *)
(* returns is written as toString writes it: wall-clock date and time,     *)
(* offset and zone; the offset tells the two passes of an hour that the    *)
(* clocks repeat apart.  A ZonedDateTime given without offset is the       *)
(* earlier pass.                                                           *)
(***************************************************************************)
\* a default zone of UTC
DEFAULT_TIMEZONE_UTC == "UTC"

DEFAULT_TIMEZONE == "Asia/Seoul"

TimeZones == {"UTC", "Asia/Seoul", "Asia/Tokyo", "America/New_York", "Asia/Kolkata"}

MsPerDay == 86400000

Instant(days, ms) == [epochDays |-> days, ms |-> ms]

\* the instant at which a clock offset minutes ahead of UTC shows date, time
InstantOfLocal(date, time, offset) ==
  LET total == TimeOfDayMs(time) - offset * 60000
  IN  Instant(EpochDays(date) + total \div MsPerDay, total % MsPerDay)

InstantBefore(a, b) ==
  \/ a.epochDays < b.epochDays
  \/ a.epochDays = b.epochDays /\ a.ms < b.ms

\* the time of day that is ms milliseconds after midnight
TimeOfMs(ms) ==
  PlainTime(ms \div 3600000, (ms % 3600000) \div 60000, (ms % 60000) \div 1000, ms % 1000)

\* the first Sunday on or after a date, and the last Sunday of a month
SundayOnOrAfter(date) == AddDays(date, 7 - DayOfWeek(date))

LastSundayOf(year, month) ==
  LET last == PlainDate(year, month, DaysInMonth(year, month))
  IN  SubtractDays(last, DayOfWeek(last) % 7)

\* the offset of a zone outside daylight saving time, in minutes
StandardOffset(zone) ==
  CASE zone = "Asia/Seoul" -> 540
    [] zone = "Asia/Tokyo" -> 540
    [] zone = "America/New_York" -> -300
    [] zone = "Asia/Kolkata" -> 330
    [] OTHER -> 0

\* the instants at which daylight saving time begins and ends in a year,
\* <<>> when the zone has none that year.  Seoul, 1987 and 1988: from
\* 02:00 of the first Sunday on or after 8 May to 03:00 of the first Sunday
\* on or after 8 October.  New York: from 02:00 of the second Sunday of
\* March to 02:00 of the first Sunday of November since 2007, before that
\* from the first Sunday of April to the last Sunday of October.
DaylightPeriod(zone, year) ==
  IF zone = "Asia/Seoul" /\ year \in {1987, 1988}
  THEN <<InstantOfLocal(SundayOnOrAfter(PlainDate(year, 5, 8)), PlainTime(2, 0, 0, 0), 540),
         InstantOfLocal(SundayOnOrAfter(PlainDate(year, 10, 8)), PlainTime(3, 0, 0, 0), 600)>>
  ELSE IF zone = "America/New_York" /\ year >= 2007
  THEN <<InstantOfLocal(SundayOnOrAfter(PlainDate(year, 3, 8)), PlainTime(2, 0, 0, 0), -300),
         InstantOfLocal(SundayOnOrAfter(PlainDate(year, 11, 1)), PlainTime(2, 0, 0, 0), -240)>>
  ELSE IF zone = "America/New_York" /\ year >= 1987
  THEN <<InstantOfLocal(SundayOnOrAfter(PlainDate(year, 4, 1)), PlainTime(2, 0, 0, 0), -300),
         InstantOfLocal(LastSundayOf(year, 10), PlainTime(2, 0, 0, 0), -240)>>
  ELSE <<>>

InPeriod(period, instant) ==
  /\ period # <<>>
  /\ ~InstantBefore(instant, period[1])
  /\ InstantBefore(instant, period[2])

\* offsetNanoseconds of a zone at an instant, in minutes
OffsetMinutesAt(zone, instant) ==
  IF InPeriod(DaylightPeriod(zone, DateOfEpochDays(instant.epochDays).year), instant)
  THEN StandardOffset(zone) + 60
  ELSE StandardOffset(zone)

\* the wall clock of a zone offset minutes ahead of UTC at an instant
WallClockAt(instant, offset, zone) ==
  LET total == instant.ms + offset * 60000
  IN  [type |-> "ZonedDateTime",
       date |-> DateOfEpochDays(instant.epochDays + total \div MsPerDay),
       time |-> TimeOfMs(total % MsPerDay), zone |-> zone, offset |-> offset]

\* Instant.prototype.toZonedDateTimeISO(timeZone)
toZonedDateTimeISO(instant, zone) == WallClockAt(instant, OffsetMinutesAt(zone, instant), zone)

\* the instant of a wall-clock time in a zone, with the default
\* disambiguation "compatible": a time the clocks skip is read with the
\* offset before the gap, a time they repeat is the earlier one
InstantOfWallClock(date, time, zone) ==
  LET std == InstantOfLocal(date, time, StandardOffset(zone))
      dst == InstantOfLocal(date, time, StandardOffset(zone) + 60)
  IN  IF OffsetMinutesAt(zone, dst) = StandardOffset(zone) + 60 THEN dst ELSE std

\* epochMilliseconds and epochNanoseconds of a ZonedDateTime, as an instant
InstantOf(z) ==
  IF "offset" \in DOMAIN z THEN InstantOfLocal(z.date, z.time, z.offset)
  ELSE InstantOfWallClock(z.date, z.time, z.zone)

\* PlainDateTime.prototype.toZonedDateTime(timeZone)
toZonedDateTime(date, time, zone) == toZonedDateTimeISO(InstantOfWallClock(date, time, zone), zone)

\* ZonedDateTime.prototype.withTimeZone(timeZone) with the wall clock kept
\* and read in the new zone
withTimeZoneOfWallClock(z, zone) == toZonedDateTime(z.date, z.time, zone)

\* ZonedDateTime.prototype.withTimeZone(timeZone): the same instant
withTimeZone(z, zone) == toZonedDateTimeISO(InstantOf(z), zone)

\* ZonedDateTime.prototype.offsetNanoseconds, in minutes
OffsetMinutesOf(z) ==
  IF "offset" \in DOMAIN z THEN z.offset ELSE OffsetMinutesAt(z.zone, InstantOf(z))

RECURSIVE GCD(_, _)
GCD(a, b) == IF b = 0 THEN a ELSE GCD(b, a % b)

\* the number n / d: a fraction in lowest terms, of denominator 1 when the
\* number is whole
Quotient(n, d) == [num |-> n \div GCD(Abs(n), d), den |-> d \div GCD(Abs(n), d)]

Number(n) == Quotient(n, 1)

Negated(q) == [q EXCEPT !.num = -q.num]

\* (toOffset - fromOffset) / (1000 * 1000 * 1000 * 60 * 60) of offsets in
\* minutes
OffsetHours(fromOffset, toOffset) == Quotient(toOffset - fromOffset, 60)

\* now is the reading of getNow(), used when referenceDate is left out
getTimeZoneOffset(fromZone, toZone, referenceDate, now) ==
  LET base == IF referenceDate.kind = "none" THEN now ELSE referenceDate.value
  IN  Ret(OffsetHours(OffsetMinutesOf(withTimeZone(base, fromZone)),
                      OffsetMinutesOf(withTimeZone(base, toZone))))

\* the minutes of a numeric UTC offset text: +hh:mm or -hh:mm
OffsetOfText(t) ==
  (IF t[1] = "-" THEN -1 ELSE 1) * (parseInt(SubSeq(t, 2, 3)) * 60 + parseInt(SubSeq(t, 5, 6)))

\* the instant of an ISO text given its date fields, the text of its time
\* and its offset in minutes
InstantOfFields(dt, timeText, offset) ==
  IF dt.kind = "throw" \/ timeText = <<>> THEN Throw("RangeError")
  ELSE Ret(InstantOfLocal(dt.value.date, dt.value.time, offset))

\* the instant of date text and the rest after the separator, the [zone]
\* annotation taken off: the rest must end with Z or with a numeric offset
InstantOfParts(dateText, rest) ==
  IF rest # <<>> /\ rest[Len(rest)] \in {"Z", "z"}
  THEN InstantOfFields(ISODateTimeOf(ISODateFields(dateText), SubSeq(rest, 1, Len(rest) - 1)),
                       SubSeq(rest, 1, Len(rest) - 1), 0)
  ELSE IF StripOffset(rest) # rest
  THEN InstantOfFields(ISODateTimeOf(ISODateFields(dateText), StripOffset(rest)),
                       StripOffset(rest), OffsetOfText(SubSeq(rest, Len(rest) - 5, Len(rest))))
  ELSE Throw("RangeError")

InstantAt(s, tpos) ==
  IF tpos = 0 \/ tpos = Len(s) THEN Throw("RangeError")
  ELSE InstantOfParts(SubSeq(s, 1, tpos - 1), StripAnnotation(SubSeq(s, tpos + 1, Len(s))))

\* Temporal.Instant.from(string): date, time and Z or a numeric offset are
\* required, a [zone] annotation is ignored
TemporalInstantFromString(s) == InstantAt(s, TimeSeparatorAt(s))

\* Temporal.Instant.from(date).toZonedDateTimeISO(timeZone)
ZonedOfInstant(instant, zone) ==
  IF instant.kind = "throw" THEN instant ELSE Ret(toZonedDateTimeISO(instant.value, zone))

\* Temporal.PlainDate.from(date).toPlainDateTime("00:00:00")
\*   .toZonedDateTime(timeZone)
ZonedOfDate(plainDate, zone) ==
  IF plainDate.kind = "throw" THEN plainDate
  ELSE Ret(toZonedDateTime(plainDate.value, Midnight, zone))

\* timeZone is the parameter with its default applied
convertToZonedDateTime(date, zone) ==
  IF date.kind = "string"
  THEN IF Includes(date.text, "T")
       THEN ZonedOfInstant(TemporalInstantFromString(date.text), zone)
       ELSE ZonedOfDate(TemporalPlainDateFromString(date.text), zone)
  ELSE IF date.value.type = "PlainDateTime"
  THEN Ret(toZonedDateTime(date.value.date, date.value.time, zone))
  ELSE Ret(withTimeZone(date.value, zone))

toUTC(zonedDateTime) == withTimeZone(zonedDateTime, "UTC")

fromUTC(utcDateTime, zone) == withTimeZone(utcDateTime, zone)

(***************************************************************************)
(* The transform module.  A native Date is its instant, to the             *)
(* millisecond; null and undefined are one value.                          *)
(***************************************************************************)
Null == [kind |-> "null"]

TInstant(instant) == [type |-> "Instant", instant |-> instant]

\* new Date(epochMilliseconds)
NativeDate(instant) == [type |-> "Date", epochDays |-> instant.epochDays, ms |-> instant.ms]

\* the instant of date.getTime()
InstantOfDate(date) == Instant(date.epochDays, date.ms)

temporalToDate(temporal) ==
  IF temporal.kind = "null" THEN Ret(Null)
  ELSE IF temporal.value.type = "Instant" THEN Ret(NativeDate(temporal.value.instant))
  ELSE IF temporal.value.type = "ZonedDateTime" THEN Ret(NativeDate(InstantOf(temporal.value)))
  ELSE IF temporal.value.type = "PlainDate"
  THEN Ret(NativeDate(InstantOf(toZonedDateTime(temporal.value.date, Midnight, DEFAULT_TIMEZONE))))
  ELSE IF temporal.value.type = "PlainDateTime"
  THEN Ret(NativeDate(InstantOf(toZonedDateTime(temporal.value.date, temporal.value.time,
                                                DEFAULT_TIMEZONE))))
  ELSE Throw("Error")

dateToZonedDateTime(date, zone) ==
  IF date = Null THEN Null ELSE toZonedDateTimeISO(InstantOfDate(date), zone)

dateToPlainDate(date, zone) ==
  IF date = Null THEN Null ELSE TPlainDate(dateToZonedDateTime(date, zone).date)

plainDateToDate(plainDate, zone, timeOfDay) ==
  NativeDate(InstantOf(toZonedDateTime(plainDate.date, timeOfDay, zone)))

plainDateTimeToDate(plainDateTime, zone) ==
  NativeDate(InstantOf(toZonedDateTime(plainDateTime.date, plainDateTime.time, zone)))

\* a wall-clock time in Seoul
InSeoul(y, m, d, h, mi, sec, ms) ==
  TZonedDateTime(PlainDate(y, m, d), PlainTime(h, mi, sec, ms), "Asia/Seoul")

\* reference dates: winter and summer of 2024 and of 1988, the two sides of
\* the beginning (07:00 UTC on 10 March) and of the end (06:00 UTC on
\* 3 November) of daylight saving time in New York in 2024, noon in Seoul
\* of the day it begins, and a reference in another zone
ReferenceDates ==
  {Noon, InSeoul(2024, 7, 15, 12, 0, 0, 0),
   InSeoul(1988, 1, 15, 12, 0, 0, 0), InSeoul(1988, 7, 15, 12, 0, 0, 0),
   InSeoul(2024, 3, 10, 12, 0, 0, 0),
   InSeoul(2024, 3, 10, 15, 59, 59, 999), InSeoul(2024, 3, 10, 16, 0, 0, 0),
   InSeoul(2024, 11, 3, 14, 59, 59, 999), InSeoul(2024, 11, 3, 15, 0, 0, 0),
   TZonedDateTime(PlainDate(2024, 7, 14), PlainTime(23, 0, 0, 0), "America/New_York")}

\* None stands for a referenceDate left out
ReferenceArgs == {TemporalArg(r) : r \in ReferenceDates} \cup {None}

\* "2024-01-15T14:30:00" with what follows the time
DateTimeTextWith(suffix) ==
  <<"2", "0", "2", "4", "-", "0", "1", "-", "1", "5", "T", "1", "4", ":", "3", "0", ":", "0", "0">>
    \o suffix

\* texts given to convertToZonedDateTime: a date-time without offset, with
\* Z, with an offset, with offset and zone, with a zone only; a date; a date
\* that does not exist, and the strings given to the date functions
ConvertStrings ==
  {DateTimeTextWith(<<>>), DateTimeTextWith(<<"Z">>),
   DateTimeTextWith(<<"+", "0", "9", ":", "0", "0">>),
   DateTimeTextWith(<<"-", "0", "5", ":", "0", "0", "[", "America/New_York", "]">>),
   DateTimeTextWith(<<"[", "Asia/Seoul", "]">>),
   <<"2", "0", "2", "4", "-", "0", "1", "-", "1", "5">>,
   <<"2", "0", "2", "4", "-", "0", "3", "-", "1", "0">>,
   <<"2", "0", "2", "4", "-", "0", "2", "-", "3", "0">>} \cup OtherStrings

\* wall-clock times without zone: an afternoon, and a time the clocks of
\* New York skip on 10 March 2024
PlainDateTimes ==
  {TPlainDateTime(PlainDate(2024, 1, 15), PlainTime(14, 30, 0, 0)),
   TPlainDateTime(PlainDate(2024, 7, 15), PlainTime(0, 15, 0, 500)),
   TPlainDateTime(PlainDate(2024, 3, 10), PlainTime(2, 30, 0, 0))}

ConvertArgs ==
  {StringArg(t) : t \in ConvertStrings}
    \cup {TemporalArg(v) : v \in PlainDateTimes \cup ReferenceDates}

\* values given to temporalToDate: null; dates of winter and summer, of
\* 1988 and of the day Seoul's clocks went forward; wall-clock times, among
\* them one that Seoul's clocks skipped (02:30 on 8 May 1988) and one they
\* showed twice (02:30 on 9 October 1988); four instants in every zone and
\* as Instant values
TransformDates ==
  {PlainDate(2024, 1, 15), PlainDate(2024, 12, 31), PlainDate(1988, 7, 15), PlainDate(1988, 5, 8)}

TransformDateTimes ==
  PlainDateTimes \cup
    {TPlainDateTime(PlainDate(1988, 7, 15), PlainTime(23, 59, 59, 999)),
     TPlainDateTime(PlainDate(1988, 5, 8), PlainTime(2, 30, 0, 0)),
     TPlainDateTime(PlainDate(1988, 10, 9), PlainTime(2, 30, 0, 0))}

TransformMoments ==
  {Noon, InSeoul(2024, 7, 15, 0, 15, 0, 500), InSeoul(1988, 7, 15, 12, 0, 0, 0),
   InSeoul(2024, 11, 3, 15, 0, 0, 0)}

TransformArgs ==
  {Null}
    \cup {TemporalArg(TPlainDate(d)) : d \in TransformDates}
    \cup {TemporalArg(v) : v \in TransformDateTimes}
    \cup {TemporalArg(withTimeZone(m, zone)) : m \in TransformMoments, zone \in TimeZones}
    \cup {TemporalArg(TInstant(InstantOf(m))) : m \in TransformMoments}

(***************************************************************************)
(* The state machine: one call at a time, from "idle" to "done".           *)
(***************************************************************************)
Init ==
  /\ pc = "idle"
  /\ op = "none"
  /\ arg = None
  /\ holidayList = <<>>
  /\ dayOffWeekdays = {}
  /\ currentDate = None
  /\ result = None
  /\ formatType = "none"
  /\ formatPattern = Absent
  /\ clockYear = 0
  /\ baseDate = None
  /\ clockNow = None
  /\ callerNow = None
  /\ fromTimeZone = "none"
  /\ timeZone = "none"
  /\ callerDate = None

CallIsWorkday ==
  /\ pc = "idle"
  /\ \E a \in DateArgs, list \in HolidayLists, dayOff \in WeekdaySets :
       /\ arg' = a
       /\ holidayList' = list
       /\ dayOffWeekdays' = dayOff
       /\ result' = isWorkday(a, list, dayOff)
  /\ op' = "isWorkday"
  /\ pc' = "done"
  /\ UNCHANGED <<currentDate, formatVars, relativeVars, zoneVars, callerDate>>

CallGetWeekDay ==
  /\ pc = "idle"
  /\ \E a \in DateArgs :
       /\ arg' = a
       /\ result' = getWeekDay(a)
  /\ op' = "getWeekDay"
  /\ pc' = "done"
  /\ UNCHANGED <<dateVars, formatVars, relativeVars, zoneVars, callerDate>>

CallGetWeekNum ==
  /\ pc = "idle"
  /\ \E a \in DateArgs :
       /\ arg' = a
       /\ result' = getWeekNum(a)
  /\ op' = "getWeekNum"
  /\ pc' = "done"
  /\ UNCHANGED <<dateVars, formatVars, relativeVars, zoneVars, callerDate>>

CallFormat ==
  /\ pc = "idle"
  /\ \E a \in FormatArgs, type \in TypeArgs, year \in ClockYears :
     \E pattern \in (IF type = "custom" THEN PatternArgs ELSE {Absent}) :
       /\ arg' = a
       /\ formatType' = type
       /\ formatPattern' = pattern
       /\ clockYear' = year
       /\ result' = format(a, type, pattern, year)
  /\ op' = "format"
  /\ pc' = "done"
  /\ UNCHANGED <<dateVars, relativeVars, zoneVars, callerDate>>

CallFormatKorean ==
  /\ pc = "idle"
  /\ \E a \in FormatArgs, year \in ClockYears :
       /\ arg' = a
       /\ clockYear' = year
       /\ result' = formatKorean(a, year)
  /\ formatType' = "custom"
  /\ formatPattern' = KoreanPattern
  /\ op' = "formatKorean"
  /\ pc' = "done"
  /\ UNCHANGED <<dateVars, relativeVars, zoneVars, callerDate>>

CallFormatRelative ==
  /\ pc = "idle"
  /\ \E a \in RelativeArgs, b \in BaseArgs, now \in ClockReadings :
       /\ arg' = a
       /\ baseDate' = b
       /\ clockNow' = IF b.kind = "none" THEN now ELSE None
       /\ clockYear' = now.date.year
       /\ result' = formatRelative(a, b, now, now.date.year)
  /\ op' = "formatRelative"
  /\ pc' = "done"
  /\ UNCHANGED <<dateVars, formatType, formatPattern, callerNow, zoneVars, callerDate>>

\* const now = Temporal.Now.zonedDateTimeISO("Asia/Seoul"), in the caller
ReadNow ==
  /\ pc = "idle"
  /\ pc' = "now"
  /\ \E now \in FirstReadings : callerNow' = now
  /\ UNCHANGED <<op, arg, result, dateVars, formatVars, baseDate, clockNow, zoneVars, callerDate>>

\* formatRelative(now.add(...)) or formatRelative(now.subtract(...)) with
\* no baseDate: the function reads the clock again, delay later
CallFormatRelativeOfNow ==
  /\ pc = "now"
  /\ \E n \in NowShifts, delay \in Delays :
       LET target == TemporalArg(Shifted(callerNow, n, 0))
           now    == Shifted(callerNow, delay[1], delay[2])
       IN  /\ arg' = target
           /\ clockNow' = now
           /\ clockYear' = now.date.year
           /\ result' = formatRelative(target, None, now, now.date.year)
  /\ baseDate' = None
  /\ op' = "formatRelative"
  /\ pc' = "done"
  /\ UNCHANGED <<dateVars, formatType, formatPattern, callerNow, zoneVars, callerDate>>

\* entry of getNextWorkday / getPreviousWorkday up to the do-while loop;
\* start is the outcome of making a PlainDate of the argument
EnterSearch(start) ==
  /\ result' = IF start.kind = "throw" THEN start ELSE result
  /\ pc' = IF start.kind = "throw" THEN "done" ELSE "loop"
  /\ currentDate' = IF start.kind = "throw" THEN currentDate ELSE start.value

\* a call of the function name with arguments of the given sets
BeginSearchOver(name, args, lists, weekdaySets) ==
  /\ pc = "idle"
  /\ \E a \in args, list \in lists, dayOff \in weekdaySets :
       /\ arg' = a
       /\ holidayList' = list
       /\ dayOffWeekdays' = dayOff
       /\ EnterSearch(ToPlainDate(a))
  /\ op' = name
  /\ UNCHANGED <<formatVars, relativeVars, zoneVars, callerDate>>

BeginWorkdaySearch(name) == BeginSearchOver(name, DateArgs, HolidayLists, WeekdaySets)

\* a forward step that jumps over a day
NextDateTwoDays(name, date) ==
  IF name = "getNextWorkday" THEN AddDays(date, 2) ELSE SubtractDays(date, 1)

\* a backward search that was left stepping forward
NextDateForward(name, date) == AddDays(date, 1)

\* the step a loop iteration takes: one day forward or one day back
NextDate(name, date) ==
  IF name = "getNextWorkday" THEN AddDays(date, 1) ELSE SubtractDays(date, 1)

\* while (!isWorkday(currentDate, ...)); return currentDate
TestSearch(stepped, workday) ==
  /\ currentDate' = stepped
  /\ result' = IF workday.kind = "throw" THEN workday
               ELSE IF workday.value THEN Ret(stepped) ELSE result
  /\ pc' = IF workday.kind = "return" /\ ~workday.value THEN "loop" ELSE "done"

\* a loop that gives up with a fault at its sixth iteration
StepToWithLimit(stepped) ==
  IF SinceDays(stepped, ToPlainDate(arg).value) \in {6, -6}
  THEN /\ currentDate' = stepped
       /\ result' = Throw("NoWorkdayFoundError")
       /\ pc' = "done"
  ELSE \E workday \in {isWorkday(PlainDateArg(stepped), holidayList, dayOffWeekdays)} :
         TestSearch(stepped, workday)

\* currentDate = currentDate.add / subtract({ days: 1 }), then the test
StepTo(stepped) ==
  \E workday \in {isWorkday(PlainDateArg(stepped), holidayList, dayOffWeekdays)} :
    TestSearch(stepped, workday)

\* the number of steps a search has taken from start
StepsFrom(start) ==
  IF Before(start, currentDate) THEN SinceDays(currentDate, start)
  ELSE SinceDays(start, currentDate)

\* one iteration of the do-while loop: step, then test isWorkday; the
\* model follows a loop for most iterations
LoopIteration(name, most) ==
  /\ pc = "loop"
  /\ op = name
  /\ \E start \in {ToPlainDate(arg).value} : StepsFrom(start) < most
  /\ \E stepped \in {NextDate(name, currentDate)} : StepTo(stepped)
  /\ UNCHANGED <<op, arg, holidayList, dayOffWeekdays, formatVars, relativeVars, zoneVars, callerDate>>

StepWorkdaySearch(name) == LoopIteration(name, MaxSteps)

\* the caller gives the date one search returned to the other search, with
\* the same holiday list and days off: back(name(d, H, W), H, W)
CallOnResult(name, back) ==
  /\ pc = "done"
  /\ op = name
  /\ result.kind = "return"
  /\ callerDate = None
  /\ callerDate' = ToPlainDate(arg)
  /\ arg' = PlainDateArg(result.value)
  /\ op' = back
  /\ currentDate' = result.value
  /\ result' = None
  /\ pc' = "loop"
  /\ UNCHANGED <<holidayList, dayOffWeekdays, formatVars, relativeVars, zoneVars>>

getNextWorkdayBegin == BeginWorkdaySearch("getNextWorkday")

getNextWorkdayStep == StepWorkdaySearch("getNextWorkday")

getPreviousWorkdayBegin == BeginWorkdaySearch("getPreviousWorkday")

getPreviousWorkdayStep == StepWorkdaySearch("getPreviousWorkday")

getPreviousOfNextWorkday == CallOnResult("getNextWorkday", "getPreviousWorkday")

getNextOfPreviousWorkday == CallOnResult("getPreviousWorkday", "getNextWorkday")

\* getTimeZoneOffset(fromTimeZone, toTimeZone, referenceDate?)
CallGetTimeZoneOffset ==
  /\ pc = "idle"
  /\ \E from \in TimeZones, to \in TimeZones, ref \in ReferenceArgs, now \in ClockReadings :
       /\ fromTimeZone' = from
       /\ timeZone' = to
       /\ arg' = ref
       /\ clockNow' = IF ref.kind = "none" THEN now ELSE None
       /\ result' = getTimeZoneOffset(from, to, ref, now)
  /\ op' = "getTimeZoneOffset"
  /\ pc' = "done"
  /\ UNCHANGED <<dateVars, formatVars, baseDate, callerNow, callerDate>>

\* convertToZonedDateTime(date, timeZone)
CallConvertToZonedDateTime ==
  /\ pc = "idle"
  /\ \E a \in ConvertArgs, zone \in TimeZones :
       /\ arg' = a
       /\ timeZone' = zone
       /\ result' = convertToZonedDateTime(a, zone)
  /\ op' = "convertToZonedDateTime"
  /\ pc' = "done"
  /\ UNCHANGED <<dateVars, formatVars, relativeVars, fromTimeZone, callerDate>>

\* temporalToDate(temporal)
CallTemporalToDate ==
  /\ pc = "idle"
  /\ \E a \in TransformArgs :
       /\ arg' = a
       /\ result' = temporalToDate(a)
  /\ op' = "temporalToDate"
  /\ pc' = "done"
  /\ UNCHANGED <<dateVars, formatVars, relativeVars, zoneVars, callerDate>>

\* the caller takes the outcome; the library keeps no state between calls
Return ==
  /\ pc = "done"
  /\ pc' = "idle"
  /\ op' = "none"
  /\ arg' = None
  /\ holidayList' = <<>>
  /\ dayOffWeekdays' = {}
  /\ currentDate' = None
  /\ result' = None
  /\ formatType' = "none"
  /\ formatPattern' = Absent
  /\ clockYear' = 0
  /\ baseDate' = None
  /\ clockNow' = None
  /\ callerNow' = None
  /\ fromTimeZone' = "none"
  /\ timeZone' = "none"
  /\ callerDate' = None

Next ==
  \/ CallIsWorkday
  \/ CallGetWeekDay
  \/ CallGetWeekNum
  \/ getNextWorkdayBegin
  \/ getNextWorkdayStep
  \/ getPreviousWorkdayBegin
  \/ getPreviousWorkdayStep
  \/ getPreviousOfNextWorkday
  \/ getNextOfPreviousWorkday
  \/ CallFormat
  \/ CallFormatKorean
  \/ CallFormatRelative
  \/ ReadNow
  \/ CallFormatRelativeOfNow
  \/ CallGetTimeZoneOffset
  \/ CallConvertToZonedDateTime
  \/ CallTemporalToDate
  \/ Return

Spec == Init /\ [][Next]_vars

(***************************************************************************)
(* The two searches alone, on calendars that leave a working weekday and   *)
(* hold one-year holidays only, and followed to their end.  A call runs    *)
(* its loop without interruption, so an iteration that can be taken is     *)
(* taken: weak fairness of the two loops.                                  *)
(***************************************************************************)
\* the Mondays of January 2024 after New Year's Day, as one-year holidays
MondayHolidays ==
  { Holiday(<<"2", "0", "2", "4", "-", "0", "1", "-", "0", "8">>, FALSE),
    Holiday(<<"2", "0", "2", "4", "-", "0", "1", "-", "1", "5">>, FALSE),
    Holiday(<<"2", "0", "2", "4", "-", "0", "1", "-", "2", "2">>, FALSE) }

SearchLists == UNION {[1..n -> MondayHolidays] : n \in 0..MaxHolidays}

\* only Monday works; the default weekend; a working weekend only
SearchWeekdaySets == {2..7, {6, 7}, 1..5}

\* Mondays and a Sunday, and a text that is no date
SearchArgs ==
  {PlainDateArg(PlainDate(2024, 1, d)) : d \in {1, 7, 22, 29}}
    \cup {StringArg(<<"2", "0", "2", "4", "-", "0", "1", "-", "0", "1">>),
          StringArg(<<"2", "0", "2", "4", "-", "0", "2", "-", "3", "0">>)}

\* more iterations than a search of these calendars can take
MostSteps == 7 * (MaxHolidays + 1) + 1

NextWorkdayCall == BeginSearchOver("getNextWorkday", SearchArgs, SearchLists, SearchWeekdaySets)

NextWorkdayLoop == LoopIteration("getNextWorkday", MostSteps)

PreviousWorkdayCall ==
  BeginSearchOver("getPreviousWorkday", SearchArgs, SearchLists, SearchWeekdaySets)

PreviousWorkdayLoop == LoopIteration("getPreviousWorkday", MostSteps)

NextOfSearches ==
  \/ NextWorkdayCall
  \/ NextWorkdayLoop
  \/ PreviousWorkdayCall
  \/ PreviousWorkdayLoop
  \/ Return

SpecOfSearches ==
  /\ Init
  /\ [][NextOfSearches]_vars
  /\ WF_vars(NextWorkdayLoop)
  /\ WF_vars(PreviousWorkdayLoop)

(***************************************************************************)
(* Vocabulary of the properties.                                           *)
(***************************************************************************)
\* a call of the named function has finished
Done(name) == pc = "done" /\ op = name

\* a call of the named function has returned a value
Returned(name) == Done(name) /\ result.kind = "return"

\* the date the native parser makes of the argument of a date function
ArgDate == ToPlainDate(arg).value

\* the holiday's date field is a canonical YYYY-MM-DD spelling of a date
IsCanonicalDateText(t) ==
  /\ Len(t) = 10
  /\ ISODateFields(t) # <<>>
  /\ IsValidISODate(ISODateFields(t)[1], ISODateFields(t)[2], ISODateFields(t)[3])

WellFormedHolidays(list) == \A i \in 1..Len(list) : IsCanonicalDateText(list[i].date)

\* the date a holiday's date field writes
HolidayDate(h) ==
  PlainDate(ISODateFields(h.date)[1], ISODateFields(h.date)[2], ISODateFields(h.date)[3])

\* the holiday falls on date d: by month and day when it recurs, by the
\* whole date otherwise
Covers(h, d) ==
  IF h.recurring
  THEN HolidayDate(h).month = d.month /\ HolidayDate(h).day = d.day
  ELSE HolidayDate(h) = d

IsHolidayIn(list, d) == \E i \in 1..Len(list) : Covers(list[i], d)

\* the dates strictly between a and b, a before b
Between(a, b) == {AddDays(a, k) : k \in 1..(SinceDays(b, a) - 1)}

WorkdayOutcome(d) == isWorkday(PlainDateArg(d), holidayList, dayOffWeekdays)

(***************************************************************************)
(* C1: whenever getNextWorkday(d, H, W) returns r, r is strictly after d,  *)
(* isWorkday(r, H, W) is true and isWorkday(x, H, W) is false for every    *)
(* date x strictly between d and r; d itself is never returned, also when  *)
(* it is a workday.                                                        *)
(***************************************************************************)
C1_NextWorkdayIsFirstAfter ==
  Returned("getNextWorkday") =>
    /\ Before(ArgDate, result.value)
    /\ WorkdayOutcome(result.value) = Ret(TRUE)
    /\ \A x \in Between(ArgDate, result.value) : WorkdayOutcome(x) = Ret(FALSE)

\* a workday given as start, and a result more than one day later
C1_Witness ==
  /\ Returned("getNextWorkday")
  /\ WorkdayOutcome(ArgDate) = Ret(TRUE)
  /\ SinceDays(result.value, ArgDate) > 1

(***************************************************************************)
(* C2: whenever getPreviousWorkday(d, H, W) returns r, r is strictly       *)
(* before d, isWorkday(r, H, W) is true and isWorkday(x, H, W) is false    *)
(* for every date x strictly between r and d.                              *)
(***************************************************************************)
C2_PreviousWorkdayIsLastBefore ==
  Returned("getPreviousWorkday") =>
    /\ Before(result.value, ArgDate)
    /\ WorkdayOutcome(result.value) = Ret(TRUE)
    /\ \A x \in Between(result.value, ArgDate) : WorkdayOutcome(x) = Ret(FALSE)

\* a result more than one day before the start
C2_Witness ==
  /\ Returned("getPreviousWorkday")
  /\ SinceDays(ArgDate, result.value) > 1

(***************************************************************************)
(* C3: for a date d, a list H of holidays with well-formed dates and a set *)
(* W of days off, isWorkday(d, H, W) is false exactly when the ISO weekday *)
(* of d is in W or some holiday of H falls on d, and true otherwise; the   *)
(* W the caller gives replaces the default {6, 7}.                         *)
(***************************************************************************)
C3_IsWorkdayIffNoDayOffNoHoliday ==
  (Done("isWorkday") /\ ToPlainDate(arg).kind = "return" /\ WellFormedHolidays(holidayList)) =>
    /\ result.kind = "return"
    /\ result.value = FALSE <=>
         (DayOfWeek(ArgDate) \in dayOffWeekdays \/ IsHolidayIn(holidayList, ArgDate))

\* with W = [5, 6], a Sunday that is no holiday is a workday
C3_Witness ==
  /\ Done("isWorkday")
  /\ dayOffWeekdays = {5, 6}
  /\ ToPlainDate(arg).kind = "return"
  /\ DayOfWeek(ArgDate) = 7
  /\ holidayList # <<>>
  /\ result = Ret(TRUE)

(***************************************************************************)
(* C4: a recurring holiday falls on every date of its month and day, in    *)
(* any year; a holiday that does not recur falls on its one date only.     *)
(* isWorkday is false on a date a holiday falls on; a workday search       *)
(* returns a date no holiday falls on and skips only days off and dates a  *)
(* holiday falls on.  getNextWorkday("2024-12-31", H) with a recurring     *)
(* "2024-01-01" in H returns 2 January 2025.                               *)
(***************************************************************************)
New2024Recurs == Holiday(<<"2", "0", "2", "4", "-", "0", "1", "-", "0", "1">>, TRUE)

MondayOfWeekOf(d) ==
  CHOOSE x \in {SubtractDays(d, k) : k \in 0..6} : DayOfWeek(x) = 1

C5_WeekNumReportsMondaysMonth ==
  Returned("getWeekNum") =>
    /\ result.value.year = MondayOfWeekOf(ArgDate).year
    /\ result.value.month = MondayOfWeekOf(ArgDate).month
    /\ ArgDate = PlainDate(2024, 2, 1) =>
         result.value = [year |-> 2024, month |-> 1, weekNum |-> 5]

\* a date of January whose week began in December of the year before
C5_Witness ==
  /\ Returned("getWeekNum")
  /\ ArgDate.month = 1
  /\ result.value.month = 12
  /\ result.value.year = ArgDate.year - 1

(***************************************************************************)
(* C6: the weekNum getWeekNum(d) returns is the 1-based rank of the Monday *)
(* of d's week among the Mondays of that Monday's month, which is          *)
(* floor((mondayOfWeek - firstMondayOfMonth) / 7) + 1;                     *)
(* it is 3 for 2024-01-15 and 5 for 2024-01-31.                            *)
(***************************************************************************)
\* the days of the month of date m that are Mondays, up to m itself
MondaysUpTo(m) == {k \in 1..m.day : DayOfWeek(PlainDate(m.year, m.month, k)) = 1}

\* the day of the first Monday of the month of date m
FirstMondayDay(m) ==
  CHOOSE k \in 1..7 : DayOfWeek(PlainDate(m.year, m.month, k)) = 1

C6_WeekNumIsRankOfMonday ==
  Returned("getWeekNum") =>
    /\ result.value.weekNum = Cardinality(MondaysUpTo(MondayOfWeekOf(ArgDate)))
    /\ result.value.weekNum =
         ((MondayOfWeekOf(ArgDate).day - FirstMondayDay(MondayOfWeekOf(ArgDate))) \div 7) + 1
    /\ ArgDate = PlainDate(2024, 1, 15) => result.value.weekNum = 3
    /\ ArgDate = PlainDate(2024, 1, 31) => result.value.weekNum = 5

\* a fifth week in a month whose 1st is a Monday
C6_Witness ==
  /\ Returned("getWeekNum")
  /\ DayOfWeek(WithDay1(MondayOfWeekOf(ArgDate))) = 1
  /\ result.value.weekNum = 5

(***************************************************************************)
(* Vocabulary of the properties about strings.                             *)
(***************************************************************************)
DateFunctions ==
  {"isWorkday", "getWeekDay", "getWeekNum", "getNextWorkday", "getPreviousWorkday"}

\* a call of a date function with a string argument has finished
DoneOnString == pc = "done" /\ op \in DateFunctions /\ arg.kind = "string"

\* a call of format or formatKorean with a string argument has finished
FormattedString == pc = "done" /\ op \in {"format", "formatKorean"} /\ arg.kind = "string"

\* the string is written with dots, slashes or the Korean markers
IsLocalSpelling(t) == Includes(t, ".") \/ Includes(t, "/") \/ Includes(t, "nyeon")

\* the finished call of a date function gave what the function gives for
\* the date d: the value of isWorkday, getWeekDay or getWeekNum on d; for a
\* search the nearest workday on its side of d, or the fault of a holiday
\* list that is not well formed
OutcomeOn(d) ==
  IF op = "isWorkday" THEN result = isWorkday(PlainDateArg(d), holidayList, dayOffWeekdays)
  ELSE IF op = "getWeekDay" THEN result = Ret(DayOfWeek(d))
  ELSE IF op = "getWeekNum" THEN result = Ret(WeekNumOfDate(d))
  ELSE IF result.kind = "throw" THEN ~WellFormedHolidays(holidayList)
  ELSE IF op = "getNextWorkday"
  THEN /\ Before(d, result.value)
       /\ WorkdayOutcome(result.value) = Ret(TRUE)
       /\ \A x \in Between(d, result.value) : WorkdayOutcome(x) = Ret(FALSE)
  ELSE /\ Before(result.value, d)
       /\ WorkdayOutcome(result.value) = Ret(TRUE)
       /\ \A x \in Between(result.value, d) : WorkdayOutcome(x) = Ret(FALSE)

Y2024 == <<"2", "0", "2", "4">>

\* the month and day texts write a real date of 2024
RealIn2024(m, d) == IsValidISODate(2024, parseInt(m), parseInt(d))

\* the string a recognizer of the shape takes: the compact recognizer takes
\* two-digit months and days only
Recognized(shape, m, d) == shape = "compact" => (Len(m) = 2 /\ Len(d) = 2)

C8_ImpossibleFieldsRaiseInvalidDate ==
  FormattedString =>
    \A shape \in Shapes, m \in MonthTexts, d \in DayTexts :
      (/\ arg.text = Spell(shape, Y2024, m, d)
       /\ Recognized(shape, m, d)
       /\ ~RealIn2024(m, d)) => result = Throw("InvalidDateError")

(***************************************************************************)
(* C9: a dash-separated string with a 4-digit year and a one-digit month   *)
(* or day, such as "2024-1-15", is accepted and gives the date of its      *)
(* year, month and day: format("2024-1-15", "date") = "2024-01-15".        *)
(***************************************************************************)
C9_SingleDigitDashDateAccepted ==
  (FormattedString /\ op = "format" /\ formatType = "date") =>
    \A m \in MonthTexts, d \in DayTexts :
      (/\ arg.text = Spell("iso", Y2024, m, d)
       /\ RealIn2024(m, d)) =>
         result = Ret(DateToString(PlainDate(2024, parseInt(m), parseInt(d))))

(***************************************************************************)
(* C10: the ISO, dot, slash, Korean (with or without blanks) and compact   *)
(* spellings of a real date with a 4-digit year parse to the same date:    *)
(* format and formatKorean give for each spelling what they give for the   *)
(* date itself, so format(s, "date") is the YYYY-MM-DD text of the date    *)
(* and formatKorean(s) its Korean text, whichever spelling s is.           *)
(***************************************************************************)
\* the shapes of the claim; the ISO and compact shapes are written with
\* two-digit months and days
ClaimedShapes == {"iso", "dot", "slash", "korean", "koreanTight", "compact"}

Padded(shape, m, d) == shape \in {"iso", "compact"} => (Len(m) = 2 /\ Len(d) = 2)

\* the text formatKorean writes for a date
KoreanTextOf(date) ==
  NumToString(date.year) \o <<"nyeon", " ">> \o NumToString(date.month) \o <<"wol", " ">>
    \o NumToString(date.day) \o <<"il">>

C10_SpellingsParseToSameDate ==
  FormattedString =>
    \A shape \in ClaimedShapes, m \in MonthTexts, d \in DayTexts :
      (/\ arg.text = Spell(shape, Y2024, m, d)
       /\ Padded(shape, m, d)
       /\ RealIn2024(m, d)) =>
         LET date == PlainDate(2024, parseInt(m), parseInt(d))
         IN  /\ result = format(TemporalArg(TPlainDate(date)), formatType, formatPattern, clockYear)
             /\ (op = "format" /\ formatType = "date") => result = Ret(DateToString(date))
             /\ op = "formatKorean" => result = Ret(KoreanTextOf(date))
             /\ (op = "format" /\ formatType = "date" /\ date = PlainDate(2024, 1, 15))
                  => result = Ret(<<"2", "0", "2", "4", "-", "0", "1", "-", "1", "5">>)

\* format("2024<nyeon>1<wol>15<il>", "date") has given "2024-01-15"
C10_Witness ==
  /\ FormattedString
  /\ op = "format"
  /\ formatType = "date"
  /\ arg.text = Spell("koreanTight", Y2024, <<"1">>, <<"1", "5">>)
  /\ result = Ret(Spell("iso", Y2024, <<"0", "1">>, <<"1", "5">>))

(***************************************************************************)
(* Vocabulary of the properties about the parser's branches.               *)
(***************************************************************************)
\* a call of format with type "date" on a string has finished
DateOfString == FormattedString /\ op = "format" /\ formatType = "date"

\* what format(s, "date") gives when s is taken as year y, month m, day d:
\* the text of the date the constructor makes, InvalidDate when it refuses
DateTextFromFields(y, m, d) ==
  IF TemporalPlainDateFromFields(y, m, d).kind = "throw" THEN Throw("InvalidDateError")
  ELSE Ret(DateToString(TemporalPlainDateFromFields(y, m, d).value))

\* the century of the clock's year
Century == (clockYear \div 100) * 100

\* the digit strings of one or two, and of one to four digits the inputs use
ShortTexts == MonthTexts \cup DayTexts \cup {<<"2", "4">>}

LongTexts == ShortTexts \cup {Y2024, <<"9", "8", "7">>}

(***************************************************************************)
(* C11: a slash-separated string a/b/c the slash recognizer takes has its  *)
(* fields assigned by length only: a of 4 digits gives year a, month b,    *)
(* day c; otherwise c of at most 2 digits gives month a, day b and year    *)
(* current century + c; otherwise month a, day b, year c.                  *)
(***************************************************************************)
C11_SlashFieldsByLength ==
  DateOfString =>
    \A a \in LongTexts, b \in ShortTexts, c \in LongTexts :
      arg.text = a \o <<"/">> \o b \o <<"/">> \o c =>
        result = IF Len(a) = 4
                 THEN DateTextFromFields(parseInt(a), parseInt(b), parseInt(c))
                 ELSE IF Len(c) <= 2
                 THEN DateTextFromFields(Century + parseInt(c), parseInt(a), parseInt(b))
                 ELSE DateTextFromFields(parseInt(c), parseInt(a), parseInt(b))

\* format("01/15/24", "date") read in 2024 has given "2024-01-15"
C11_Witness ==
  /\ DateOfString
  /\ clockYear = 2024
  /\ arg.text = <<"0", "1", "/", "1", "5", "/", "2", "4">>
  /\ result = Ret(<<"2", "0", "2", "4", "-", "0", "1", "-", "1", "5">>)

(***************************************************************************)
(* C12: a 2-digit year yy of a dot-separated string, or of a slash string  *)
(* read as MM/DD/YY, becomes floor(currentYear / 100) * 100 + yy, whatever *)
(* side of the current year that falls on, by the same rule in both        *)
(* branches; a year group of 3 or 4 digits is taken as written and the     *)
(* result does not depend on the clock.                                    *)
(***************************************************************************)
C12_TwoDigitYearInCurrentCentury ==
  DateOfString =>
    /\ \A y \in {<<"2", "4">>, <<"9", "8", "7">>, Y2024}, m \in MonthTexts, d \in DayTexts :
         arg.text = y \o <<".">> \o m \o <<".">> \o d =>
           result = IF Len(y) = 2
                    THEN DateTextFromFields(Century + parseInt(y), parseInt(m), parseInt(d))
                    ELSE DateTextFromFields(parseInt(y), parseInt(m), parseInt(d))
    /\ \A y \in {<<"2", "4">>, <<"9", "8", "7">>, Y2024}, m \in MonthTexts, d \in DayTexts :
         arg.text = m \o <<"/">> \o d \o <<"/">> \o y =>
           result = IF Len(y) = 2
                    THEN DateTextFromFields(Century + parseInt(y), parseInt(m), parseInt(d))
                    ELSE DateTextFromFields(parseInt(y), parseInt(m), parseInt(d))
    /\ (arg.text = <<"2", "4", ".", "0", "1", ".", "1", "5">> /\ clockYear = 2100)
         => result = Ret(<<"2", "1", "2", "4", "-", "0", "1", "-", "1", "5">>)
    /\ arg.text = <<"9", "8", "7", ".", "1", ".", "1", "5">>
         => result = Ret(<<"0", "9", "8", "7", "-", "0", "1", "-", "1", "5">>)

\* format("24.01.15", "date") read in 1999 has given "1924-01-15"
C12_Witness ==
  /\ DateOfString
  /\ clockYear = 1999
  /\ arg.text = <<"2", "4", ".", "0", "1", ".", "1", "5">>
  /\ result = Ret(<<"1", "9", "2", "4", "-", "0", "1", "-", "1", "5">>)

(***************************************************************************)
(* C13: a string that no structural recognizer takes and that the native   *)
(* date, date-time and zoned date-time parsers all reject raises           *)
(* InvalidDateFormatError with the original string and the list of the     *)
(* supported format families, as format("invalid-date", "date") does; a    *)
(* string a recognizer takes never raises it.                              *)
(***************************************************************************)
\* a recognizer before the fallback takes the trimmed string t
TakenByRecognizer(t) ==
  \/ Includes(t, "T")
  \/ ISODateTest(t)
  \/ KoreanMatch(t) # <<>>
  \/ DotMatch(t) # <<>>
  \/ SlashMatch(t) # <<>>
  \/ CompactMatch(t) # <<>>
  \/ DashMatch(t) # <<>>

\* the three native parsers reject the string t
NativesReject(t) ==
  /\ TemporalPlainDateFromString(t).kind = "throw"
  /\ TemporalPlainDateTimeFromString(t).kind = "throw"
  /\ TemporalZonedDateTimeFromString(t).kind = "throw"

RaisedUnrecognized == result.kind = "throw" /\ result.error = "InvalidDateFormatError"

C13_UnrecognizedStringsRaiseFormatError ==
  FormattedString =>
    /\ (~TakenByRecognizer(trim(arg.text)) /\ NativesReject(trim(arg.text)))
         => result = InvalidDateFormatError(arg.text, SupportedFormats)
    /\ TakenByRecognizer(trim(arg.text)) => ~RaisedUnrecognized
    /\ arg.text \in UnrecognizedStrings \cup {<<>>, <<"i", "n", "v", "a", "l", "i", "d", "-", "d", "a", "t", "e">>}
         => /\ RaisedUnrecognized
            /\ result.dateString = arg.text
            /\ Len(result.supportedFormats) = 7
    /\ \A shape \in Shapes, m \in MonthTexts, d \in DayTexts :
         (arg.text = Spell(shape, Y2024, m, d) /\ Recognized(shape, m, d)) => ~RaisedUnrecognized

\* format(" 2024-01 ", ...) has raised the error with the blanks kept
C13_Witness ==
  /\ FormattedString
  /\ arg.text = <<" ", "2", "0", "2", "4", "-", "0", "1", " ">>
  /\ RaisedUnrecognized
  /\ result.dateString = arg.text

(***************************************************************************)
(* C14: for a real calendar date written as a canonical ISO string s       *)
(* (YYYY-MM-DD), format(s, "date") = s.                                    *)
(***************************************************************************)
C14_CanonicalISORoundTrip ==
  (DateOfString /\ IsCanonicalDateText(arg.text)) => result = Ret(arg.text)

\* format("0987-01-15", "date") has given the string back
C14_Witness ==
  /\ DateOfString
  /\ arg.text = <<"0", "9", "8", "7", "-", "0", "1", "-", "1", "5">>
  /\ result = Ret(arg.text)

(***************************************************************************)
(* C15: format(x, "time") raises IncompatibleOperation when x is a         *)
(* PlainDate or a string that parses to one, and gives no time made up     *)
(* for it; for a value that carries a time of day it returns the time.     *)
(***************************************************************************)
\* a call of format with the given type has finished
FormattedAs(type) == pc = "done" /\ op = "format" /\ formatType = type

\* the Temporal value format works on: the argument, or what the parser
\* makes of it; the parser's fault when it has one
FormatInput ==
  IF arg.kind = "string" THEN parseFlexibleDateString(arg.text, clockYear) ELSE Ret(arg.value)

C15_TimeOfDateIsRefused ==
  FormattedAs("time") =>
    /\ (arg.kind = "Temporal" /\ arg.value.type = "PlainDate")
         => result = Throw("IncompatibleOperationError")
    /\ (arg.kind = "Temporal" /\ arg.value.type # "PlainDate")
         => result = Ret(TimeToString(arg.value.time))
    /\ (FormatInput.kind = "return" /\ FormatInput.value.type = "PlainDate")
         => result = Throw("IncompatibleOperationError")
    /\ (FormatInput.kind = "return" /\ FormatInput.value.type # "PlainDate")
         => result.kind = "return"
    /\ (arg.kind = "string" /\ IsCanonicalDateText(arg.text))
         => result = Throw("IncompatibleOperationError")
    /\ (arg.kind = "string"
        /\ arg.text = <<"2", "0", "2", "4", "-", "0", "1", "-", "1", "5", "T",
                        "1", "4", ":", "3", "0", ":", "0", "0">>)
         => result = Ret(<<"1", "4", ":", "3", "0", ":", "0", "0">>)

\* format(PlainDate 2024-01-15, "time") has raised IncompatibleOperation
C15_Witness ==
  /\ FormattedAs("time")
  /\ arg = TemporalArg(TPlainDate(PlainDate(2024, 1, 15)))
  /\ result = Throw("IncompatibleOperationError")

(***************************************************************************)
(* C16: format(x, "custom") raises MissingParameter exactly when no        *)
(* pattern is supplied and x is a value or a parseable string; when a      *)
(* pattern is supplied it returns a string and raises no MissingParameter. *)
(***************************************************************************)
C16_MissingParameterIffNoPattern ==
  (FormattedAs("custom") /\ FormatInput.kind = "return") =>
    /\ formatPattern = Absent => result = Throw("MissingParameterError")
    /\ formatPattern # Absent => result.kind = "return"

(***************************************************************************)
(* C17: format(x, "datetime") has exactly the shape YYYY-MM-DD HH:mm:ss    *)
(* for every input: a PlainDate with 00:00:00, a value with a time with    *)
(* its wall-clock date and time to whole seconds, without fraction, offset *)
(* or zone, which is what the pattern "YYYY-MM-DD HH:mm:ss" gives.         *)
(***************************************************************************)
\* the text has the shape YYYY-MM-DD HH:mm:ss
IsDateTimeText(t) ==
  /\ Len(t) = 19
  /\ \A i \in 1..19 :
       IF i \in {5, 8} THEN t[i] = "-"
       ELSE IF i = 11 THEN t[i] = " "
       ELSE IF i \in {14, 17} THEN t[i] = ":"
       ELSE IsDigit(t[i])

DateTimePattern ==
  <<"Y", "Y", "Y", "Y", "-", "M", "M", "-", "D", "D", " ", "H", "H", ":", "m", "m", ":", "s", "s">>

C17_DateTimeHasWholeSeconds ==
  (FormattedAs("datetime") /\ FormatInput.kind = "return") =>
    /\ result.kind = "return"
    /\ IsDateTimeText(result.value)
    /\ FormatInput.value.type = "PlainDate"
         => result = Ret(DateToString(FormatInput.value.date)
                         \o <<" ", "0", "0", ":", "0", "0", ":", "0", "0">>)
    /\ FormatInput.value.type # "PlainDate"
         => result = Ret(formatCustom(FormatInput.value, DateTimePattern))

(***************************************************************************)
(* C18: in format(x, "custom", p) each occurrence in p of a token YYYY,    *)
(* YY, MM, M, DD, D, HH, H, mm, m, ss, s becomes the padded or unpadded    *)
(* field of x, the longer token of a pair first (YYYY is never read as two *)
(* YY, MM never as two M), and the digits a substitution writes are not    *)
(* read again; "YYYY/MM/DD HH:mm" on "2024-01-15T14:30:00" gives           *)
(* "2024/01/15 14:30" and "M/D/YY" gives "1/15/24".                        *)
(***************************************************************************)
\* the tokens, the longer of a pair before the shorter
Tokens ==
  << <<"Y", "Y", "Y", "Y">>, <<"Y", "Y">>, <<"M", "M">>, <<"M">>, <<"D", "D">>, <<"D">>,
     <<"H", "H">>, <<"H">>, <<"m", "m">>, <<"m">>, <<"s", "s">>, <<"s">> >>

\* the field of value v the i-th token stands for, as text
TokenText(i, v) ==
  IF i = 1 THEN padStart(NumToString(v.date.year), 4)
  ELSE IF i = 2 THEN padStart(NumToString(v.date.year % 100), 2)
  ELSE IF i = 3 THEN padStart(NumToString(v.date.month), 2)
  ELSE IF i = 4 THEN NumToString(v.date.month)
  ELSE IF i = 5 THEN padStart(NumToString(v.date.day), 2)
  ELSE IF i = 6 THEN NumToString(v.date.day)
  ELSE IF i = 7 THEN padStart(NumToString(v.time.hour), 2)
  ELSE IF i = 8 THEN NumToString(v.time.hour)
  ELSE IF i = 9 THEN padStart(NumToString(v.time.minute), 2)
  ELSE IF i = 10 THEN NumToString(v.time.minute)
  ELSE IF i = 11 THEN padStart(NumToString(v.time.second), 2)
  ELSE NumToString(v.time.second)

\* the tokens the pattern p starts with
TokensAt(p) ==
  {i \in 1..12 : Len(p) >= Len(Tokens[i]) /\ SubSeq(p, 1, Len(Tokens[i])) = Tokens[i]}

\* the pattern read once from left to right, the longest token first at
\* each place, every other character kept
RECURSIVE ReadTokens(_, _)
ReadTokens(p, v) ==
  IF p = <<>> THEN <<>>
  ELSE IF TokensAt(p) = {} THEN <<p[1]>> \o ReadTokens(Tail(p), v)
  ELSE LET i == CHOOSE x \in TokensAt(p) : \A y \in TokensAt(p) : x <= y
       IN  TokenText(i, v) \o ReadTokens(SubSeq(p, Len(Tokens[i]) + 1, Len(p)), v)

\* the pattern holds a letter of a time token
HasTimeLetter(p) == Includes(p, "H") \/ Includes(p, "m") \/ Includes(p, "s")

ISO1430 ==
  <<"2", "0", "2", "4", "-", "0", "1", "-", "1", "5", "T", "1", "4", ":", "3", "0", ":", "0", "0">>

C18_CustomTokensLongestFirst ==
  (FormattedAs("custom") /\ FormatInput.kind = "return" /\ formatPattern \notin {Absent, <<>>}) =>
    /\ (FormatInput.value.type # "PlainDate" \/ ~HasTimeLetter(formatPattern))
         => result = Ret(ReadTokens(formatPattern, FormatInput.value))
    /\ (arg.kind = "string" /\ arg.text = ISO1430
        /\ formatPattern = <<"Y", "Y", "Y", "Y", "/", "M", "M", "/", "D", "D", " ", "H", "H", ":", "m", "m">>)
         => result = Ret(<<"2", "0", "2", "4", "/", "0", "1", "/", "1", "5", " ", "1", "4", ":", "3", "0">>)
    /\ (arg.kind = "string" /\ arg.text = ISO1430 /\ formatPattern = <<"M", "/", "D", "/", "Y", "Y">>)
         => result = Ret(<<"1", "/", "1", "5", "/", "2", "4">>)

\* format("2024-01-15T14:30:00", "custom", "YYYY/MM/DD HH:mm") has given
\* "2024/01/15 14:30"
C18_Witness ==
  /\ FormattedAs("custom")
  /\ arg.kind = "string"
  /\ arg.text = ISO1430
  /\ formatPattern = <<"Y", "Y", "Y", "Y", "/", "M", "M", "/", "D", "D", " ", "H", "H", ":", "m", "m">>
  /\ result = Ret(<<"2", "0", "2", "4", "/", "0", "1", "/", "1", "5", " ", "1", "4", ":", "3", "0">>)

(***************************************************************************)
(* C19: formatKorean is idempotent through the parser: for a date value or *)
(* a parseable string x, formatKorean(formatKorean(x)) = formatKorean(x);  *)
(* the output is <year>nyeon <month>wol <day>il with month and day         *)
(* written without a zero in front.                                        *)
(***************************************************************************)
\* the text is four digits, the year marker, a month and a day of one or
\* two digits without a zero in front, each with its marker, one blank
\* after the year and month markers
IsKoreanText(t) ==
  \E ml \in 1..2, dl \in 1..2 :
    /\ Len(t) = 9 + ml + dl
    /\ AllDigits(SubSeq(t, 1, 4))
    /\ t[5] = "nyeon" /\ t[6] = " "
    /\ AllDigits(SubSeq(t, 7, 6 + ml)) /\ t[7] # "0"
    /\ t[7 + ml] = "wol" /\ t[8 + ml] = " "
    /\ AllDigits(SubSeq(t, 9 + ml, 8 + ml + dl)) /\ t[9 + ml] # "0"
    /\ t[9 + ml + dl] = "il"

InstantSeconds(z) ==
  EpochDays(z.date) * 86400 + (z.time.hour * 60 + z.time.minute) * 60 + z.time.second
    - ZoneOffsetMinutes(z.zone) * 60

\* the target of a finished call as a zoned value
RelativeTarget ==
  ToZonedSeoul(IF arg.kind = "string"
               THEN parseFlexibleDateString(arg.text, clockYear).value
               ELSE arg.value)

\* the target of the call is a value or a string the parser accepts
TargetGiven ==
  arg.kind = "string" => parseFlexibleDateString(arg.text, clockYear).kind = "return"

\* t - b in milliseconds, as whole seconds rounded down and the rest
DiffSeconds(t, b) ==
  InstantSeconds(t) - InstantSeconds(b)
    + ((t.time.millisecond - b.time.millisecond) \div 1000)

DiffRestMs(t, b) == (t.time.millisecond - b.time.millisecond) % 1000

\* the whole seconds of |t - b|
AbsSeconds(t, b) ==
  IF DiffSeconds(t, b) >= 0 THEN DiffSeconds(t, b)
  ELSE -DiffSeconds(t, b) - (IF DiffRestMs(t, b) # 0 THEN 1 ELSE 0)

\* t is after b
IsAfter(t, b) == DiffSeconds(t, b) > 0 \/ (DiffSeconds(t, b) = 0 /\ DiffRestMs(t, b) > 0)

\* the text the claim gives for t and b
ClaimedRelativeText(t, b) ==
  LET secs == AbsSeconds(t, b)
      word == IF IsAfter(t, b) THEN <<"hu">> ELSE <<"jeon">>
  IN  IF secs >= 86400 THEN NumToString(secs \div 86400) \o <<"il", " ">> \o word
      ELSE IF secs >= 3600 THEN NumToString(secs \div 3600) \o <<"sigan", " ">> \o word
      ELSE IF secs >= 60 THEN NumToString(secs \div 60) \o <<"bun", " ">> \o word
      ELSE <<"banggeum", " ", "jeon">>

C20_RelativeTextByLeadingUnit ==
  (Done("formatRelative") /\ baseDate.kind # "none" /\ TargetGiven) =>
    result = Ret(ClaimedRelativeText(RelativeTarget, baseDate.value))

(***************************************************************************)
(* C21: when the caller reads now from the clock and then calls            *)
(* formatRelative with no baseDate, so that the base is a later reading of *)
(* the clock, now.add({days: 1}) gives "1 day later", now.add({hours: 2})  *)
(* "2 hours later", now.subtract({days: 1}) "1 day ago" and                *)
(* now.subtract({minutes: 5}) "5 minutes ago", for every delay of less     *)
(* than a minute between the two readings.                                 *)
(***************************************************************************)
\* formatRelative has finished on a target made of the caller's reading
DoneOfNow == Done("formatRelative") /\ callerNow # None

C21_DocumentedRelativeExamples ==
  DoneOfNow =>
    /\ arg.value = Shifted(callerNow, 86400, 0) => result = Ret(<<"1", "il", " ", "hu">>)
    /\ arg.value = Shifted(callerNow, 7200, 0) => result = Ret(<<"2", "sigan", " ", "hu">>)
    /\ arg.value = Shifted(callerNow, -86400, 0) => result = Ret(<<"1", "il", " ", "jeon">>)
    /\ arg.value = Shifted(callerNow, -300, 0) => result = Ret(<<"5", "bun", " ", "jeon">>)

(***************************************************************************)
(* C22: getTimeZoneOffset(from, to, ref) is the UTC offset of to at the    *)
(* instant ref minus the UTC offset of from at the same instant, in hours. *)
(* getTimeZoneOffset(a, a, ref) is 0, getTimeZoneOffset(a, b, ref) is the  *)
(* negative of getTimeZoneOffset(b, a, ref), and                           *)
(* getTimeZoneOffset("UTC", "Asia/Seoul", ref) is 9 for every ref outside  *)
(* the years 1987 and 1988, in whose summers Seoul kept daylight saving    *)
(* time: for a ref of July 1988 it is 10.                                  *)
(***************************************************************************)
\* the reference of the finished call: referenceDate, or the clock's reading
ReferenceValue == IF arg.kind = "none" THEN clockNow ELSE arg.value

ReferenceInstant == InstantOf(ReferenceValue)

ReferenceYear == DateOfEpochDays(ReferenceInstant.epochDays).year

\* the difference of the two offsets at the reference instant, in hours
OffsetDifference ==
  Quotient(OffsetMinutesAt(timeZone, ReferenceInstant)
             - OffsetMinutesAt(fromTimeZone, ReferenceInstant), 60)

\* the call with the two zones exchanged
Exchanged == getTimeZoneOffset(timeZone, fromTimeZone, arg, clockNow)

UTCToSeoul == fromTimeZone = "UTC" /\ timeZone = "Asia/Seoul"

DoneConvert == Done("convertToZonedDateTime")

\* format(z, "datetime")
DateTimeFormatOf(z) == format(TemporalArg(z), "datetime", Absent, 2024)

\* the texts of the dates given without time
DateOnlyTexts == {t \in ConvertStrings : Len(t) = 10 /\ IsCanonicalDateText(t)}

\* midnight of the written date on the wall clock of the zone asked for
MidnightOfWrittenDate ==
  /\ result.kind = "return"
  /\ result.value.date = TemporalPlainDateFromString(arg.text).value
  /\ result.value.time = Midnight
  /\ result.value.zone = timeZone

\* the zoned value given, at the same instant in the zone asked for
SameInstantInZone ==
  /\ result.kind = "return"
  /\ InstantOf(result.value) = InstantOf(arg.value)
  /\ result.value.zone = timeZone

\* the written time 14:30 of 15 January 2024 on the wall clock of the zone
WrittenTimeInZone ==
  /\ result.kind = "return"
  /\ result.value.date = PlainDate(2024, 1, 15)
  /\ result.value.time = PlainTime(14, 30, 0, 0)
  /\ result.value.zone = timeZone
  /\ timeZone = "Asia/Seoul" =>
       /\ DateTimeFormatOf(toUTC(result.value))
            = Ret(<<"2", "0", "2", "4", "-", "0", "1", "-", "1", "5", " ",
                    "0", "5", ":", "3", "0", ":", "0", "0">>)
       /\ DateTimeFormatOf(fromUTC(toUTC(result.value), "Asia/Seoul"))
            = Ret(<<"2", "0", "2", "4", "-", "0", "1", "-", "1", "5", " ",
                    "1", "4", ":", "3", "0", ":", "0", "0">>)

C23_ConvertReadsWallClockInZone ==
  DoneConvert =>
    /\ (arg.kind = "string" /\ arg.text = DateTimeTextWith(<<>>)) => WrittenTimeInZone
    /\ (arg.kind = "string" /\ arg.text \in DateOnlyTexts) => MidnightOfWrittenDate
    /\ (arg.kind = "Temporal" /\ arg.value.type = "ZonedDateTime") => SameInstantInZone

(***************************************************************************)
(* C24: temporalToDate maps a ZonedDateTime or an Instant to the native    *)
(* Date of the same instant whatever the zone, a PlainDate to midnight of  *)
(* that date in Asia/Seoul, a PlainDateTime to that wall-clock time in     *)
(* Asia/Seoul (when Seoul's clocks showed it), and null to null.  Hence    *)
(* temporalToDate(d) = plainDateToDate(d, "Asia/Seoul"),                   *)
(* temporalToDate(dt) = plainDateTimeToDate(dt, "Asia/Seoul") and          *)
(* dateToPlainDate(temporalToDate(d)) = d.                                 *)
(***************************************************************************)
DoneTransform == Done("temporalToDate")

GivenType(type) == arg.kind = "Temporal" /\ arg.value.type = type

\* the wall clock of Seoul at the instant of the Date returned
SeoulWallClock == dateToZonedDateTime(result.value, "Asia/Seoul")

\* Seoul's clocks showed the time: not between 02:00 and 03:00 of the days
\* daylight saving time began
ShownInSeoul(dt) ==
  ~(dt.date \in {PlainDate(1987, 5, 10), PlainDate(1988, 5, 8)} /\ dt.time.hour = 2)

\* temporalToDate of the same instant in another zone
InOtherZone(zone) == temporalToDate(TemporalArg(withTimeZone(arg.value, zone)))

RECURSIVE ReadDateTokens(_, _)
ReadDateTokens(p, v) ==
  IF p = <<>> THEN <<>>
  ELSE IF TokensAt(p) \cap 1..6 = {} THEN <<p[1]>> \o ReadDateTokens(Tail(p), v)
  ELSE LET i == CHOOSE x \in TokensAt(p) : \A y \in TokensAt(p) : x <= y
       IN  TokenText(i, v) \o ReadDateTokens(SubSeq(p, Len(Tokens[i]) + 1, Len(p)), v)

\* format of type "custom" has finished on a PlainDate and a pattern
CustomOfPlainDate ==
  /\ FormattedAs("custom")
  /\ formatPattern \notin {Absent, <<>>}
  /\ FormatInput.kind = "return"
  /\ FormatInput.value.type = "PlainDate"

DateAndTimePattern ==
  <<"Y", "Y", "Y", "Y", "-", "M", "M", "-", "D", "D", " ", "H", "H", ":", "m", "m">>

C25_TimeTokensStayForPlainDate ==
  CustomOfPlainDate =>
    /\ result = Ret(ReadDateTokens(formatPattern, FormatInput.value))
    /\ (FormatInput.value.date = PlainDate(2024, 1, 15) /\ formatPattern = DateAndTimePattern)
         => result = Ret(<<"2", "0", "2", "4", "-", "0", "1", "-", "1", "5", " ",
                           "H", "H", ":", "m", "m">>)

\* the day and the month replaced, the three single-letter time tokens kept
C25_Witness ==
  /\ CustomOfPlainDate
  /\ arg = TemporalArg(TPlainDate(PlainDate(2024, 12, 5)))
  /\ formatPattern = <<"D", ".", "M", " ", "H", "s", "m">>
  /\ result = Ret(<<"5", ".", "1", "2", " ", "H", "s", "m">>)

(***************************************************************************)
(* C26: when the ISO weekday of the date is one of the non-working         *)
(* weekdays, isWorkday returns false without examining the holiday list:   *)
(* the result is false for every holiday list, also for one that holds a   *)
(* holiday whose date string is malformed, and no fault is raised.         *)
(***************************************************************************)
\* isWorkday has finished on a date that falls on a day off
DoneOnDayOff ==
  /\ Done("isWorkday")
  /\ ToPlainDate(arg).kind = "return"
  /\ DayOfWeek(ArgDate) \in dayOffWeekdays

\* the list holds a holiday that makes the examination of the list fail
MalformedHolidayIn(list) ==
  \E i \in 1..Len(list) :
    list[i].recurring /\ TemporalPlainDateFromString(list[i].date).kind = "throw"

C26_DayOffBeforeHolidays == DoneOnDayOff => result = Ret(FALSE)

\* a Saturday with the malformed holiday first in the list
C26_Witness ==
  /\ DoneOnDayOff
  /\ ArgDate = PlainDate(2024, 1, 13)
  /\ dayOffWeekdays = {6, 7}
  /\ Len(holidayList) = 2
  /\ MalformedHolidayIn(<<holidayList[1]>>)
  /\ result = Ret(FALSE)

(***************************************************************************)
(* C27: the loops of getNextWorkday and getPreviousWorkday have no         *)
(* iteration limit.  As long as every day examined is a non-workday the    *)
(* call is still in its loop, however many days that is: it has returned   *)
(* no date and raised no fault.  When every weekday is a day off this is   *)
(* so for ever.                                                            *)
(***************************************************************************)
\* a search is under way or over, on a start date that could be read
InSearch ==
  /\ op \in {"getNextWorkday", "getPreviousWorkday"}
  /\ ToPlainDate(arg).kind = "return"

\* the days the loop has stepped to and tested so far
ExaminedDays ==
  IF currentDate = ArgDate THEN {}
  ELSE IF Before(ArgDate, currentDate) THEN Between(ArgDate, currentDate) \cup {currentDate}
  ELSE Between(currentDate, ArgDate) \cup {currentDate}

StillSearching == pc = "loop" /\ result = None

C27_SearchHasNoIterationLimit ==
  InSearch =>
    /\ (\A d \in ExaminedDays : WorkdayOutcome(d) = Ret(FALSE)) => StillSearching
    /\ dayOffWeekdays = 1..7 => StillSearching

\* every weekday a day off: the loop has taken as many steps as the model
\* follows it and is not over
C27_Witness ==
  /\ InSearch
  /\ dayOffWeekdays = 1..7
  /\ Cardinality(ExaminedDays) = MaxSteps
  /\ StillSearching

(***************************************************************************)
(* C28: when the non-working weekdays leave out at least one weekday and   *)
(* the holiday list holds only holidays that do not recur, getNextWorkday  *)
(* and getPreviousWorkday come to an end for every start date, after at    *)
(* most 7 * (number of holidays + 1) steps of one day.                     *)
(***************************************************************************)
NoRecurringHoliday == \A i \in 1..Len(holidayList) : ~holidayList[i].recurring

\* a search on a calendar with a working weekday and one-year holidays
FiniteSearch == InSearch /\ dayOffWeekdays # 1..7 /\ NoRecurringHoliday

StepLimit == 7 * (Len(holidayList) + 1)

C28_SearchEndsWithinSevenPerHoliday ==
  /\ [](FiniteSearch => StepsFrom(ArgDate) <= StepLimit)
  /\ (FiniteSearch /\ pc = "loop") ~> (pc = "done" /\ result.kind = "return")

\* only Monday works and the next two Mondays are holidays: the search ends
\* on the third, at the limit of 21 steps
C28_Witness ==
  /\ FiniteSearch
  /\ pc = "done"
  /\ Len(holidayList) = 2
  /\ StepsFrom(ArgDate) = StepLimit
  /\ result = Ret(currentDate)

(***************************************************************************)
(* C29: for every holiday list H, weekday set W and date d, when           *)
(* isWorkday(d, H, W) is true, getPreviousWorkday(getNextWorkday(d, H, W), *)
(* H, W) and getNextWorkday(getPreviousWorkday(d, H, W), H, W) are d.      *)
(* When d is no workday the round trip does not come back to d, and in     *)
(* both cases the date in between and the date at the end are workdays.    *)
(***************************************************************************)
\* the second search of a round trip is over
RoundTripDone ==
  /\ pc = "done"
  /\ op \in {"getNextWorkday", "getPreviousWorkday"}
  /\ callerDate # None

C29_RoundTripOfWorkday ==
  RoundTripDone =>
    /\ result.kind = "return"
    /\ WorkdayOutcome(callerDate.value) = Ret(TRUE) => result.value = callerDate.value
    /\ WorkdayOutcome(callerDate.value) # Ret(TRUE) => result.value # callerDate.value
    /\ WorkdayOutcome(ArgDate) = Ret(TRUE)
    /\ WorkdayOutcome(result.value) = Ret(TRUE)

\* from a Friday over the weekend and a holiday Monday to Tuesday, and back
C29_Witness ==
  /\ RoundTripDone
  /\ op = "getPreviousWorkday"
  /\ callerDate = Ret(PlainDate(2024, 1, 12))
  /\ ArgDate = PlainDate(2024, 1, 16)
  /\ result = Ret(PlainDate(2024, 1, 12))

(***************************************************************************)
(* C30: for every date d, the weekNum of getWeekNum(d) is one of 1 to 5,   *)
(* never 0, negative or 6, the month is one of 1 to 12, and the seven      *)
(* dates of one week from Monday to Sunday give the same year, month and   *)
(* weekNum.                                                                *)
(***************************************************************************)
\* the seven dates of the week of d
WeekOf(d) == {AddDays(MondayOfWeekOf(d), k) : k \in 0..6}

C30_WeekNumOneToFiveSameAllWeek ==
  Returned("getWeekNum") =>
    /\ result.value.weekNum \in 1..5
    /\ result.value.month \in 1..12
    /\ \A d \in WeekOf(ArgDate) : getWeekNum(PlainDateArg(d)) = result

\* a Sunday of February in the fifth week of January
C30_Witness ==
  /\ Returned("getWeekNum")
  /\ ArgDate = PlainDate(2024, 2, 4)
  /\ result = Ret([month |-> 1, year |-> 2024, weekNum |-> 5])

====
